---- MODULE Spec2Model ----
(***************************************************************************)
(* PrayerHub Mini: the day-plan scheduler (scheduler.py, startup.py,       *)
(* prayer_times.py) and the playback path (playback.py, bluetooth.py,      *)
(* audio.py) as state machines.                                            *)
(*                                                                         *)
(* Time is an absolute number of minutes: day * 1440 + minute of the day.  *)
(* A wall-clock "HH:MM" text is the pair <<hh, mm>> of its two fields.     *)
(* A job id is the sequence of the fields its text has between the "_"     *)
(* separators: "event_fajr_20250101" is <<"event", "fajr", 20250101>>.     *)
(***************************************************************************)
EXTENDS Integers, Sequences, FiniteSets, TLC

VARIABLES
    now,        \* the wall clock read by now_provider / Clock.now
    jobs,       \* the job store of the BackgroundScheduler
    cache,      \* CacheStore: date -> cached times mapping, or NoPlan
    fired,      \* handler invocations so far: sequence of <<date, event>>
    lastOp,     \* the operation that produced the current state
    booted,     \* how far main() has come: "init" .. "running"
    th,         \* per thread: where it is in handle_event / play, and its locals
    lock,       \* AudioPlayer._lock: 0 when free, else the thread that took it
    btConnected, \* whether the Bluetooth device is connected right now
    kaProcess,  \* BackgroundKeepAliveService._process: "none", "live" or "dead"
    kaOrphans,  \* keepalive processes still running that no handle refers to
    kaThread,   \* BackgroundKeepAliveService._modulator_thread: 0 for None
    kaStop,     \* BackgroundKeepAliveService._modulator_stop is set
    kaCycle,    \* BackgroundKeepAliveService.volume_cycle_enabled
    mods,       \* the modulation threads: where each is in _modulate_loop
    caller,     \* the thread calling the keepalive service, and its position
    api,        \* PrayerApiClient._get: the call in progress and its history
    fetch,      \* PrayerTimeService.prefetch: the call under study, its trace
    tests,      \* TestScheduleService: the last call and what it answered
    bt,         \* BluetoothManager.ensure_connected / _once: the call and its trace
    probe,      \* FfprobeDurationProbe and PlaybackTimeoutPolicy: file, cache, calls
    refresh,    \* the refresh callback of schedule_refresh: the run and its outcome
    sel,        \* PlaybackHandler.handle_event on one thread: configuration, call, play
    disk,       \* CacheStore: the files of one key and the write in progress
    web,        \* the web request threads inside TestScheduleService
    cyc         \* the volume of the last interval of the keepalive volume cycle

schedVars == <<now, jobs, cache, fired, lastOp, booted>>

playVars == <<th, lock, btConnected>>

keepVars == <<kaProcess, kaOrphans, kaThread, kaStop, kaCycle, mods, caller>>

restVars == <<api, fetch>>

toolVars == <<tests, bt, probe, refresh>>

moreVars == <<sel, disk, web, cyc>>

vars == <<now, jobs, cache, fired, lastOp, booted, th, lock, btConnected,
          kaProcess, kaOrphans, kaThread, kaStop, kaCycle, mods, caller, api, fetch,
          tests, bt, probe, refresh, sel, disk, web, cyc>>

-----------------------------------------------------------------------------
(* Bounds *)

MaxDay == 1

\* a due job is processed by the scheduler thread at most this many minutes
\* after its run time
MaxLate == 2

-----------------------------------------------------------------------------
(* Program constants *)

MinutesPerDay == 1440

\* JobScheduler.misfire_grace_seconds = 60, in minutes
MisfireGraceMinutes == 1

\* schedule_refresh_job(hour=0, minute=5)
RefreshHour == 0

RefreshMinute == 5

\* _derive_extras: sunset = maghrib - 20 minutes
SunsetOffsetMinutes == 20

Days == 0 .. MaxDay

NoPlan == [absent |-> TRUE]

-----------------------------------------------------------------------------
(* Dates and wall-clock texts *)

\* day.strftime("%Y%m%d"): the 8-digit date, day 0 being 2025-01-01
Ymd(day) == 20250101 + day

\* hhmm.replace(":", ""): the 4-digit text HHMM
Compact(hhmm) == hhmm[1] * 100 + hhmm[2]

\* datetime.combine(day, time(int(hh), int(mm)))
CombineNoDay(day, hhmm) == hhmm[1] * 60 + hhmm[2]

Combine(day, hhmm) == day * MinutesPerDay + hhmm[1] * 60 + hhmm[2]

\* dt.strftime("%H:%M"): the date of dt is dropped
FormatHM(t) == <<(t % MinutesPerDay) \div 60, t % 60>>

\* now_provider().date()
DateOf(t) == t \div MinutesPerDay

-----------------------------------------------------------------------------
(* Job ids.  A field of an id text is <<"w", word>> for a word and         *)
(* <<"d", width, n>> for a zero-padded number of `width` digits.           *)

Word(w) == <<"w", w>>

Digits(width, n) == <<"d", width, n>>

MentionsDate(id, suffix) ==
    \E i \in 1 .. Len(id) :
        /\ id[i][1] = "d"
        /\ \/ id[i] = Digits(8, suffix)
           \/ id[i][2] = 12 /\ id[i][3][1] = suffix

\* job.id.endswith(suffix) for the 8 digits `suffix`: the last field is that
\* 8-digit date, or it is a 12-digit stamp YYYYMMDDHHMM whose last 8 digits
\* MMDDHHMM read as that number (a word, or a 4-digit field after "_", never
\* ends with 8 digits)
EndsWith(id, suffix) ==
    LET last == id[Len(id)]
    IN /\ last[1] = "d"
       /\ \/ last[2] = 8 /\ last[3] = suffix
          \/ last[2] = 12 /\ (last[3][1] % 10000) * 10000 + last[3][2] = suffix

JobIdNoName(name, day) == <<Word("event"), Digits(8, Ymd(day))>>

\* f"event_{name}_{day.strftime('%Y%m%d')}"
JobId(name, day) == <<Word("event"), Word(name), Digits(8, Ymd(day))>>

\* f"quran_{day.strftime('%Y%m%d')}_{compact}"
QuranJobId(day, hhmm) == <<Word("quran"), Digits(8, Ymd(day)), Digits(4, Compact(hhmm))>>

RefreshJobId == <<Word("refresh_daily")>>

\* the event name handed to the handler
EventName(name) == <<name>>

\* f"quran@{hhmm}"
QuranEventName(hhmm) == <<"quran@", hhmm>>

-----------------------------------------------------------------------------
(* The scheduler backend (APScheduler job store), by its contract *)

\* scheduler.add_job(..., id=job.id, replace_existing=True)
AddJob(js, job) == {j \in js : j.id # job.id} \cup {job}

\* scheduler.remove_job(id)
RemoveJob(js, id) == {j \in js : j.id # id}

\* a DateTrigger job as schedule_day builds it; `late` records whether its
\* run time was already reached when it was added
DayJob(id, runAt, event, day, t) ==
    [id |-> id, run_at |-> runAt, event |-> event, date |-> day, late |-> runAt <= t]

IsDayJob(j) == j.id # RefreshJobId

-----------------------------------------------------------------------------
(* JobScheduler *)

\* sorted(plan.times.items()): the event names in sorted order
NameOrder == <<"asr", "dhuhr", "fajr", "isha", "maghrib", "midnight", "sunrise", "sunset", "tahajjud">>

AllNames == {NameOrder[i] : i \in 1 .. Len(NameOrder)}

\* JobScheduler._remove_jobs_for_date
RemoveJobsForDate(js, day) == {j \in js : ~EndsWith(j.id, Ymd(day))}

IsPastStrict(runAt, t) == runAt < t

\* `if run_at <= self.now_provider(): continue`
IsPast(runAt, t) == runAt <= t

RECURSIVE AddEvents(_, _, _, _)
\* the first loop of schedule_day over NameOrder[i..]
AddEvents(js, plan, t, i) ==
    IF i > Len(NameOrder) THEN js
    ELSE LET name == NameOrder[i]
         IN IF name \notin DOMAIN plan.times
            THEN AddEvents(js, plan, t, i + 1)
            ELSE LET runAt == Combine(plan.date, plan.times[name])
                 IN IF IsPast(runAt, t)
                    THEN AddEvents(js, plan, t, i + 1)
                    ELSE AddEvents(
                           AddJob(js, DayJob(JobId(name, plan.date), runAt,
                                             EventName(name), plan.date, t)),
                           plan, t, i + 1)

\* the least text of a non-empty set of HH:MM texts, as sorted() orders them
MinHM(S) == CHOOSE x \in S : \A y \in S : Combine(0, x) <= Combine(0, y)

RECURSIVE AddQuran(_, _, _, _)
\* the second loop of schedule_day over sorted(quran_times or [])
AddQuran(js, day, t, rest) ==
    IF rest = {} THEN js
    ELSE LET hhmm == MinHM(rest)
             runAt == Combine(day, hhmm)
         IN IF IsPast(runAt, t)
            THEN AddQuran(js, day, t, rest \ {hhmm})
            ELSE AddQuran(
                   AddJob(js, DayJob(QuranJobId(day, hhmm), runAt,
                                     QuranEventName(hhmm), day, t)),
                   day, t, rest \ {hhmm})

\* JobScheduler.schedule_day(plan, quran_times=quranTimes) at clock t
ScheduleDay(js, plan, quranTimes, t) ==
    AddQuran(AddEvents(RemoveJobsForDate(js, plan.date), plan, t, 1),
             plan.date, t, quranTimes)

\* the first 00:05 strictly after t (CronTrigger(hour=0, minute=5))
NextRefresh(t) ==
    LET today == DateOf(t) * MinutesPerDay + RefreshHour * 60 + RefreshMinute
    IN IF today > t THEN today ELSE today + MinutesPerDay

\* JobScheduler.schedule_refresh_job
ScheduleRefreshJob(js, t) ==
    AddJob(js, [id |-> RefreshJobId, run_at |-> NextRefresh(t),
                event |-> <<"refresh">>, date |-> DateOf(NextRefresh(t)), late |-> FALSE])

-----------------------------------------------------------------------------
(* PrayerTimeService: the remote API, the derivation pass and the cache *)

\* config.api.prefetch_days of the modelled deployment
PrefetchDays == 3

CacheDays == 0 .. (MaxDay + PrefetchDays)

EmptyCache == [d \in CacheDays |-> NoPlan]

\* what the remote API answers for a date: the same table every day
ApiTimes(day) == ("fajr" :> <<6, 6>>) @@ ("maghrib" :> <<18, 0>>)

\* day_plan_from_api(payload)
DayPlanFromApi(day) == [date |-> day, times |-> ApiTimes(day)]

Has(times, name) == name \in DOMAIN times

PutAlone(times, name, hhmm) == [n \in {name} |-> hhmm]

Put(times, name, hhmm) == [n \in DOMAIN times \cup {name} |-> IF n = name THEN hhmm ELSE times[n]]

\* _derive_extras(plan, next_plan); next is NoPlan for None
DeriveExtras(plan, next) ==
    LET times1 == IF ~Has(plan.times, "sunset") /\ Has(plan.times, "maghrib")
                  THEN Put(plan.times, "sunset",
                           FormatHM(Combine(plan.date, plan.times["maghrib"])
                                    - SunsetOffsetMinutes))
                  ELSE plan.times
        out(ts) == [date |-> plan.date, times |-> ts]
    IN IF next = NoPlan THEN out(times1)
       ELSE IF Has(times1, "midnight") /\ Has(times1, "tahajjud") THEN out(times1)
       ELSE IF ~Has(times1, "maghrib") \/ ~Has(next.times, "fajr") THEN out(times1)
       ELSE LET maghribDt == Combine(plan.date, times1["maghrib"])
                fajrDt == Combine(next.date, next.times["fajr"])
                night == fajrDt - maghribDt
                times2 == IF Has(times1, "midnight") THEN times1
                          ELSE Put(times1, "midnight", FormatHM(maghribDt + (night \div 2)))
                times3 == IF Has(times2, "tahajjud") THEN times2
                          ELSE Put(times2, "tahajjud",
                                   FormatHM(fajrDt - ((night + 2) \div 3)))
            IN IF night <= 0 THEN out(times1) ELSE out(times3)

\* the dates of a set in chronological order
RECURSIVE SortedDays(_)
SortedDays(S) ==
    IF S = {} THEN <<>>
    ELSE LET m == CHOOSE x \in S : \A y \in S : x <= y
         IN <<m>> \o SortedDays(S \ {m})

DeriveSkipsLast(plans) ==
    [i \in 1 .. Len(plans) |->
        IF i + 1 <= Len(plans) THEN DeriveExtras(plans[i], plans[i + 1]) ELSE plans[i]]

\* PrayerTimeService._derive_missing_extras over the fetched plans
DeriveMissingExtras(plans) ==
    [i \in 1 .. Len(plans) |->
        DeriveExtras(plans[i], IF i + 1 <= Len(plans) THEN plans[i + 1] ELSE NoPlan)]

\* PrayerTimeService.prefetch(days) at clock t.  rangeGot: the dates the range
\* query returned (empty when it failed); dateGot: the dates whose per-date
\* query succeeds.
Prefetch(c, t, rangeGot, dateGot) ==
    LET got == IF rangeGot # {} THEN rangeGot ELSE dateGot
        order == SortedDays(got)
        plans == [i \in 1 .. Len(order) |-> DayPlanFromApi(order[i])]
        enriched == DeriveMissingExtras(plans)
    IN IF got = {} THEN c
       ELSE [d \in CacheDays |->
               IF d \in got
               THEN enriched[CHOOSE i \in 1 .. Len(order) : order[i] = d]
               ELSE c[d]]

\* the dates prefetch asks for at clock t
Window(t) == DateOf(t) .. (DateOf(t) + PrefetchDays - 1)

\* PrayerTimeService.get_day(day)
GetDay(c, day) == c[day]

-----------------------------------------------------------------------------
(* startup.py *)

RECURSIVE ScheduleCached(_, _, _, _)
\* schedule_from_cache: schedule_day for every cached day, in key order
ScheduleCached(js, c, t, d) ==
    IF d \notin CacheDays THEN js
    ELSE IF c[d] = NoPlan THEN ScheduleCached(js, c, t, d + 1)
    ELSE ScheduleCached(ScheduleDay(js, c[d], {}, t), c, t, d + 1)

\* the two schedule_day calls of refresh(), given the cache after prefetch
RescheduleTodayTomorrow(js, c, t) ==
    LET today == DateOf(t)
        js1 == IF GetDay(c, today) # NoPlan
               THEN ScheduleDay(js, GetDay(c, today), {}, t) ELSE js
    IN IF GetDay(c, today + 1) # NoPlan
       THEN ScheduleDay(js1, GetDay(c, today + 1), {}, t) ELSE js1

-----------------------------------------------------------------------------
(* Playback: PlaybackHandler.handle_event, BluetoothManager and AudioPlayer, *)
(* run by several threads (scheduler pool threads and web request threads)   *)

NumThreads == 2

Threads == 1 .. NumThreads

\* the event names the callers pass
EventNames == {"fajr", "test_audio", "nosuch"}

\* a thread outside handle_event
Idle ==
    [pc |-> "idle", name |-> "", ctx |-> "", ensured |-> 0, ensureRet |-> "none",
     sawYes |-> FALSE, policy |-> 0, plays |-> 0, vol |-> 0, runs |-> 0,
     took |-> FALSE, exit |-> "none", raised |-> FALSE, ret |-> "none"]

InitPlay ==
    /\ th = [t \in Threads |-> Idle]
    /\ lock = 0
    /\ btConnected \in BOOLEAN

\* PlaybackHandler._select_audio: the file of an event name, "none" for None
SelectAudio(name) ==
    IF name = "test_audio" THEN "test_audio.mp3"
    ELSE IF name = "fajr" THEN "adhan_fajr.mp3"
    ELSE "none"

PropagateException(l) == [l EXCEPT !.pc = "done", !.ret = "raised", !.raised = TRUE]

\* handle_event: `except Exception: ... return False`
HandleEventExcept(l) == [l EXCEPT !.pc = "done", !.ret = "false", !.raised = TRUE]

GateIgnored(l, connected) ==
    [l EXCEPT !.ensureRet = IF connected THEN "true" ELSE "false", !.pc = "select"]

\* handle_event: `if not self._bluetooth.ensure_connected_once(): return False`
Gate(l, connected) ==
    IF connected
    THEN [l EXCEPT !.ensureRet = "true", !.pc = "select"]
    ELSE [l EXCEPT !.ensureRet = "false", !.pc = "done", !.ret = "false"]

\* the locals of one play call, cleared
NoPlay(l) == [l EXCEPT !.ctx = "", !.vol = 0, !.runs = 0, !.took = FALSE, !.exit = "none"]

\* a call of AudioPlayer.play begins; ctx tells the call site
StartPlay(l, ctx) ==
    [NoPlay(l) EXCEPT !.pc = "play_exists", !.ctx = ctx, !.plays = @ + 1]

\* AudioPlayer.play returns (True iff exit = "ok") to its call site
EndPlay(l, exit) ==
    IF l.ctx = "tone"
    THEN [l EXCEPT !.exit = exit, !.pc = "tone_done"]
    ELSE [l EXCEPT !.exit = exit, !.pc = "done",
                   !.ret = IF exit = "ok" THEN "true" ELSE "false"]

AcquireAlways(l) == TRUE

\* self._lock.acquire(blocking=False)
CanAcquire(l) == l = 0

LockNotTaken(l, t) == l

\* the lock after a successful acquire by t
Acquired(l, t) == t

ReleaseOnSuccessOnly(l, exit) == IF exit = "ok" THEN 0 ELSE l

\* `finally: self._lock.release()`
Released(l, exit) == 0

\* handle_event(name) is entered and calls ensure_connected_once
Call(t) ==
    /\ th[t].pc = "idle"
    /\ th' = [th EXCEPT ![t] = [Idle EXCEPT !.pc = "bt_info", !.ensured = 1]]
    /\ UNCHANGED <<lock, btConnected, schedVars, keepVars, restVars, toolVars, moreVars>>

\* ensure_connected_once: _is_connected() runs `bluetoothctl info`
BtInfo(t, raises) ==
    /\ th[t].pc = "bt_info"
    /\ th' = [th EXCEPT ![t] =
                IF raises THEN HandleEventExcept(@)
                ELSE IF btConnected THEN Gate([@ EXCEPT !.sawYes = TRUE], TRUE)
                ELSE [@ EXCEPT !.pc = "bt_connect"]]
    /\ UNCHANGED <<lock, btConnected, schedVars, keepVars, restVars, toolVars, moreVars>>

\* _connect_once: `bluetoothctl connect` raises, fails or succeeds
BtConnect(t, outcome) ==
    /\ th[t].pc = "bt_connect"
    /\ th' = [th EXCEPT ![t] =
                IF outcome = "raise" THEN HandleEventExcept(@)
                ELSE IF outcome = "fail" THEN Gate(@, FALSE)
                ELSE [@ EXCEPT !.pc = "bt_info2"]]
    /\ btConnected' = IF outcome = "ok" THEN TRUE ELSE btConnected
    /\ UNCHANGED <<lock, schedVars, keepVars, restVars, toolVars, moreVars>>

\* _connect_once: the _is_connected() after a successful connect, then
\* _play_connected_tone: no tone when the tone file is missing
BtInfo2(t, raises, toneExists) ==
    /\ th[t].pc = "bt_info2"
    /\ th' = [th EXCEPT ![t] =
                IF raises THEN HandleEventExcept(@)
                ELSE IF ~btConnected THEN Gate(@, FALSE)
                ELSE IF toneExists THEN StartPlay([@ EXCEPT !.sawYes = TRUE], "tone")
                ELSE Gate([@ EXCEPT !.sawYes = TRUE], TRUE)]
    /\ UNCHANGED <<lock, btConnected, schedVars, keepVars, restVars, toolVars, moreVars>>

\* _play_connected_tone ignores the result of play, and ensure_connected_once
\* returns True
ToneReturn(t) ==
    /\ th[t].pc = "tone_done"
    /\ th' = [th EXCEPT ![t] = Gate(NoPlay(@), TRUE)]
    /\ UNCHANGED <<lock, btConnected, schedVars, keepVars, restVars, toolVars, moreVars>>

\* handle_event: _select_audio(event_name), event_name being the argument
Select(t, name, raises) ==
    /\ th[t].pc = "select"
    /\ th' = [th EXCEPT ![t] =
                IF raises THEN HandleEventExcept([@ EXCEPT !.name = name])
                ELSE IF SelectAudio(name) = "none"
                THEN [@ EXCEPT !.name = name, !.pc = "done", !.ret = "false"]
                ELSE [@ EXCEPT !.name = name, !.pc = "timeout"]]
    /\ UNCHANGED <<lock, btConnected, schedVars, keepVars, restVars, toolVars, moreVars>>

\* handle_event: _resolve_timeout(path), then self._player.play(...)
Timeout(t, raises) ==
    /\ th[t].pc = "timeout"
    /\ th' = [th EXCEPT ![t] =
                IF raises THEN HandleEventExcept([@ EXCEPT !.policy = @ + 1])
                ELSE StartPlay([@ EXCEPT !.policy = @ + 1], "event")]
    /\ UNCHANGED <<lock, btConnected, schedVars, keepVars, restVars, toolVars, moreVars>>

\* play: `if not path.exists(): return False`; an exception that escapes play
\* is caught by _play_connected_tone, or else by handle_event
PlayExists(t, outcome) ==
    /\ th[t].pc = "play_exists"
    /\ th' = [th EXCEPT ![t] =
                IF outcome = "exists" THEN [@ EXCEPT !.pc = "play_acquire"]
                ELSE IF outcome = "missing" THEN EndPlay(@, "missing")
                ELSE IF @.ctx = "tone" THEN EndPlay(@, "escaped")
                ELSE HandleEventExcept([@ EXCEPT !.exit = "escaped"])]
    /\ UNCHANGED <<lock, btConnected, schedVars, keepVars, restVars, toolVars, moreVars>>

\* play: `if not self._lock.acquire(blocking=False): return False`
PlayAcquire(t) ==
    /\ th[t].pc = "play_acquire"
    /\ IF CanAcquire(lock)
       THEN /\ lock' = Acquired(lock, t)
            /\ th' = [th EXCEPT ![t] = [@ EXCEPT !.pc = "play_volume", !.took = TRUE]]
       ELSE /\ lock' = lock
            /\ th' = [th EXCEPT ![t] = EndPlay(@, "busy")]
    /\ UNCHANGED <<btConnected, schedVars, keepVars, restVars, toolVars, moreVars>>

\* play: self._router.set_master_volume(volume_percent) returns or raises
PlayVolume(t, raises) ==
    /\ th[t].pc = "play_volume"
    /\ IF raises
       THEN /\ th' = [th EXCEPT ![t] = EndPlay([@ EXCEPT !.vol = @ + 1], "exception")]
            /\ lock' = Released(lock, "exception")
       ELSE /\ th' = [th EXCEPT ![t] = [@ EXCEPT !.pc = "play_which", !.vol = @ + 1]]
            /\ lock' = lock
    /\ UNCHANGED <<btConnected, schedVars, keepVars, restVars, toolVars, moreVars>>

\* play: which("mpg123") / which("ffplay"), then runner.run(command) starts
PlayWhich(t, found) ==
    /\ th[t].pc = "play_which"
    /\ IF found
       THEN /\ th' = [th EXCEPT ![t] = [@ EXCEPT !.pc = "play_running", !.runs = @ + 1]]
            /\ lock' = lock
       ELSE /\ th' = [th EXCEPT ![t] = EndPlay(@, "noplayer")]
            /\ lock' = Released(lock, "noplayer")
    /\ UNCHANGED <<btConnected, schedVars, keepVars, restVars, toolVars, moreVars>>

\* play: runner.run returns 0, returns non-zero, or raises (a timeout)
PlayFinish(t, exit) ==
    /\ th[t].pc = "play_running"
    /\ th' = [th EXCEPT ![t] = EndPlay(@, exit)]
    /\ lock' = Released(lock, exit)
    /\ UNCHANGED <<btConnected, schedVars, keepVars, restVars, toolVars, moreVars>>

\* handle_event has returned to its caller
Return(t) ==
    /\ th[t].pc = "done"
    /\ th' = [th EXCEPT ![t] = Idle]
    /\ UNCHANGED <<lock, btConnected, schedVars, keepVars, restVars, toolVars, moreVars>>

\* the Bluetooth link comes or goes on its own
Drift ==
    /\ btConnected' = ~btConnected
    /\ UNCHANGED <<th, lock, schedVars, keepVars, restVars, toolVars, moreVars>>

NextPlay ==
    \/ \E t \in Threads : Call(t)
    \/ \E t \in Threads, raises \in BOOLEAN : BtInfo(t, raises)
    \/ \E t \in Threads, outcome \in {"raise", "fail", "ok"} : BtConnect(t, outcome)
    \/ \E t \in Threads, raises \in BOOLEAN, toneExists \in BOOLEAN :
           BtInfo2(t, raises, toneExists)
    \/ \E t \in Threads : ToneReturn(t)
    \/ \E t \in Threads, name \in EventNames, raises \in BOOLEAN : Select(t, name, raises)
    \/ \E t \in Threads, raises \in BOOLEAN : Timeout(t, raises)
    \/ \E t \in Threads, outcome \in {"exists", "missing", "raise"} : PlayExists(t, outcome)
    \/ \E t \in Threads : PlayAcquire(t)
    \/ \E t \in Threads, raises \in BOOLEAN : PlayVolume(t, raises)
    \/ \E t \in Threads, found \in BOOLEAN : PlayWhich(t, found)
    \/ \E t \in Threads, exit \in {"ok", "failed", "exception"} : PlayFinish(t, exit)
    \/ \E t \in Threads : Return(t)
    \/ Drift

-----------------------------------------------------------------------------
(* BackgroundKeepAliveService: one calling thread and the modulation threads *)

\* modulation threads that can exist at once (a finished one frees its place)
MaxMods == 2

\* running keepalive processes that lost their handle, at most
MaxOrphans == 1

\* volume_cycle_min_percent: int = 1
VolumeCycleMin == 1

\* volume_cycle_max_percent of the configuration under study
VolumeCycleMax == 3

Mods == 1 .. MaxMods

\* a Thread object not started, or whose run has ended
NoMod == [pc |-> "dead", volume |-> 0, direction |-> 0]

\* the calling thread outside the service
CallerIdle == [pc |-> "idle", last |-> "none", sawBt |-> "none", spawned |-> FALSE,
               overlap |-> FALSE]

\* Thread.is_alive()
IsAlive(m) == m # 0 /\ mods[m].pc # "dead"

\* is_running(): a handle exists and its poll() is None
IsRunning == kaProcess = "live"

\* the service as __post_init__ leaves it
InitKeep ==
    /\ kaProcess = "none"
    /\ kaOrphans = 0
    /\ kaThread = 0
    /\ kaStop = FALSE
    /\ mods = [m \in Mods |-> NoMod]
    /\ caller = CallerIdle

\* a running process loses its only handle when the handle is overwritten
Orphaned(n) == IF kaProcess = "live" THEN n + 1 ELSE n

\* no orphan beyond the bound
OrphanRoom == kaProcess = "live" => kaOrphans < MaxOrphans

\* on_foreground_start() -> pause_for_foreground() is entered
CallPause ==
    /\ caller.pc = "idle"
    /\ caller' = [CallerIdle EXCEPT !.pc = "p_check"]
    /\ UNCHANGED <<kaProcess, kaOrphans, kaThread, kaStop, kaCycle, mods, schedVars, playVars, restVars, toolVars, moreVars>>

\* pause_for_foreground: `if not self.is_running(): return`
PauseCheck ==
    /\ caller.pc = "p_check"
    /\ caller' = IF IsRunning THEN [caller EXCEPT !.pc = "p_stopmod"]
                 ELSE [caller EXCEPT !.pc = "idle", !.last = "pause"]
    /\ UNCHANGED <<kaProcess, kaOrphans, kaThread, kaStop, kaCycle, mods, schedVars, playVars, restVars, toolVars, moreVars>>

\* _stop_modulator: no thread, or self._modulator_stop.set()
PauseStopMod ==
    /\ caller.pc = "p_stopmod"
    /\ IF kaThread = 0
       THEN /\ caller' = [caller EXCEPT !.pc = "p_term"]
            /\ kaStop' = kaStop
       ELSE /\ caller' = [caller EXCEPT !.pc = "p_join"]
            /\ kaStop' = TRUE
    /\ UNCHANGED <<kaProcess, kaOrphans, kaThread, kaCycle, mods, schedVars, playVars, restVars, toolVars, moreVars>>

\* _stop_modulator: join(timeout=0.2) returns, the thread ended or not, and
\* self._modulator_thread = None
PauseJoin ==
    /\ caller.pc = "p_join"
    /\ kaThread' = 0
    /\ caller' = [caller EXCEPT !.pc = "p_term"]
    /\ UNCHANGED <<kaProcess, kaOrphans, kaStop, kaCycle, mods, schedVars, playVars, restVars, toolVars, moreVars>>

\* _stop_process: `if self._process is None: return`, else terminate()
PauseTerminate ==
    /\ caller.pc = "p_term"
    /\ IF kaProcess = "none"
       THEN /\ caller' = [caller EXCEPT !.pc = "idle", !.last = "pause"]
            /\ kaProcess' = kaProcess
       ELSE /\ caller' = [caller EXCEPT !.pc = "p_clear"]
            /\ kaProcess' = "dead"
    /\ UNCHANGED <<kaOrphans, kaThread, kaStop, kaCycle, mods, schedVars, playVars, restVars, toolVars, moreVars>>

\* _stop_process: `finally: self._process = None`, and pause returns
PauseClear ==
    /\ caller.pc = "p_clear"
    /\ OrphanRoom
    /\ kaOrphans' = Orphaned(kaOrphans)
    /\ kaProcess' = "none"
    /\ caller' = [caller EXCEPT !.pc = "idle", !.last = "pause"]
    /\ UNCHANGED <<kaThread, kaStop, kaCycle, mods, schedVars, playVars, restVars, toolVars, moreVars>>

\* on_foreground_end() -> resume_if_idle() is entered
CallResume ==
    /\ caller.pc = "idle"
    /\ caller' = [CallerIdle EXCEPT !.pc = "r_check"]
    /\ UNCHANGED <<kaProcess, kaOrphans, kaThread, kaStop, kaCycle, mods, schedVars, playVars, restVars, toolVars, moreVars>>

\* resume_if_idle: `if self.is_running(): return`
ResumeCheck ==
    /\ caller.pc = "r_check"
    /\ caller' = IF IsRunning THEN [caller EXCEPT !.pc = "idle", !.last = "resume"]
                 ELSE [caller EXCEPT !.pc = "r_bt"]
    /\ UNCHANGED <<kaProcess, kaOrphans, kaThread, kaStop, kaCycle, mods, schedVars, playVars, restVars, toolVars, moreVars>>

BluetoothUnchecked(c, connected) == [c EXCEPT !.pc = "r_spawn"]

\* resume_if_idle: `if ... not self.bluetooth.ensure_connected_once(): return`
BluetoothChecked(c, connected) ==
    IF connected THEN [c EXCEPT !.pc = "r_spawn", !.sawBt = "true"]
    ELSE [c EXCEPT !.pc = "idle", !.last = "resume", !.sawBt = "false"]

ResumeBt(connected) ==
    /\ caller.pc = "r_bt"
    /\ caller' = BluetoothChecked(caller, connected)
    /\ UNCHANGED <<kaProcess, kaOrphans, kaThread, kaStop, kaCycle, mods, schedVars, playVars, restVars, toolVars, moreVars>>

\* _initial_volume() of a cycling service
InitialVolume == VolumeCycleMin

\* resume_if_idle: missing file or no player command: return; else
\* self._process = self.runner.spawn(command)
ResumeSpawn(canStart) ==
    /\ caller.pc = "r_spawn"
    /\ IF canStart
       THEN /\ OrphanRoom
            /\ kaOrphans' = Orphaned(kaOrphans)
            /\ kaProcess' = "live"
            /\ caller' = [caller EXCEPT
                             !.spawned = TRUE,
                             !.overlap = IsRunning \/ kaOrphans > 0,
                             !.pc = IF kaCycle THEN "r_mod" ELSE "idle",
                             !.last = IF kaCycle THEN @ ELSE "resume"]
            /\ cyc' = IF kaCycle THEN [vol |-> InitialVolume] ELSE cyc
       ELSE /\ caller' = [caller EXCEPT !.pc = "idle", !.last = "resume"]
            /\ UNCHANGED <<kaProcess, kaOrphans, cyc>>
    /\ UNCHANGED <<kaThread, kaStop, kaCycle, mods, schedVars, playVars, restVars, toolVars,
                   sel, disk, web>>

\* _start_modulator: keep a live thread, else clear the stop flag and start one
ResumeStartMod ==
    /\ caller.pc = "r_mod"
    /\ IF IsAlive(kaThread)
       THEN UNCHANGED <<kaThread, kaStop, mods, moreVars>>
       ELSE \E m \in Mods :
               /\ mods[m].pc = "dead"
               /\ \A k \in Mods : mods[k].pc = "dead" => m <= k
               /\ kaStop' = FALSE
               /\ kaThread' = m
               /\ mods' = [mods EXCEPT ![m] =
                             [pc |-> "sleep", volume |-> InitialVolume, direction |-> 1]]
    /\ caller' = [caller EXCEPT !.pc = "idle", !.last = "resume"]
    /\ UNCHANGED <<kaProcess, kaOrphans, kaCycle, schedVars, playVars, restVars, toolVars, moreVars>>

\* _modulate_loop: the volume after one step, bounced at the two bounds
NextVolume(volume, direction) ==
    IF volume + direction >= VolumeCycleMax THEN <<VolumeCycleMax, -1>>
    ELSE IF volume + direction <= VolumeCycleMin THEN <<VolumeCycleMin, 1>>
    ELSE <<volume + direction, direction>>

\* _modulate_loop: `while not stop.is_set()`, sleep, `if stop.is_set(): break`
\* (nothing is written between the two checks); then the volume moves
ModWake(m) ==
    /\ mods[m].pc = "sleep"
    /\ mods' = [mods EXCEPT ![m] =
                  IF kaStop THEN NoMod
                  ELSE [@ EXCEPT !.pc = "running",
                                 !.volume = NextVolume(@, mods[m].direction)[1],
                                 !.direction = NextVolume(mods[m].volume, @)[2]]]
    /\ UNCHANGED <<kaProcess, kaOrphans, kaThread, kaStop, kaCycle, caller, schedVars, playVars, restVars, toolVars, moreVars>>

\* _modulate_loop: `if not self.is_running(): break`; _restart_with_volume:
\* no command: return to the loop head
ModCheckRunning(m, command) ==
    /\ mods[m].pc = "running"
    /\ mods' = [mods EXCEPT ![m] =
                  IF ~IsRunning THEN NoMod
                  ELSE IF command THEN [@ EXCEPT !.pc = "term"]
                  ELSE [@ EXCEPT !.pc = "sleep"]]
    /\ cyc' = IF IsRunning /\ ~command THEN [vol |-> mods[m].volume] ELSE cyc
    /\ UNCHANGED <<kaProcess, kaOrphans, kaThread, kaStop, kaCycle, caller, schedVars, playVars, restVars, toolVars,
                   sel, disk, web>>

\* _restart_with_volume: _stop_process: no handle, or terminate()
ModTerminate(m) ==
    /\ mods[m].pc = "term"
    /\ IF kaProcess = "none"
       THEN /\ mods' = [mods EXCEPT ![m].pc = "spawn"]
            /\ kaProcess' = kaProcess
       ELSE /\ mods' = [mods EXCEPT ![m].pc = "clear"]
            /\ kaProcess' = "dead"
    /\ UNCHANGED <<kaOrphans, kaThread, kaStop, kaCycle, caller, schedVars, playVars, restVars, toolVars, moreVars>>

\* _restart_with_volume: _stop_process: `finally: self._process = None`
ModClear(m) ==
    /\ mods[m].pc = "clear"
    /\ OrphanRoom
    /\ kaOrphans' = Orphaned(kaOrphans)
    /\ kaProcess' = "none"
    /\ mods' = [mods EXCEPT ![m].pc = "spawn"]
    /\ UNCHANGED <<kaThread, kaStop, kaCycle, caller, schedVars, playVars, restVars, toolVars, moreVars>>

\* _restart_with_volume: self._process = self.runner.spawn(command)
ModSpawn(m) ==
    /\ mods[m].pc = "spawn"
    /\ OrphanRoom
    /\ kaOrphans' = Orphaned(kaOrphans)
    /\ kaProcess' = "live"
    /\ mods' = [mods EXCEPT ![m].pc = "sleep"]
    /\ cyc' = [vol |-> mods[m].volume]
    /\ UNCHANGED <<kaThread, kaStop, kaCycle, caller, schedVars, playVars, restVars, toolVars,
                   sel, disk, web>>

\* the keepalive player ends by itself (no loop, or the player died)
ProcessExits ==
    /\ kaProcess = "live"
    /\ kaProcess' = "dead"
    /\ UNCHANGED <<kaOrphans, kaThread, kaStop, kaCycle, mods, caller, schedVars, playVars, restVars, toolVars, moreVars>>

-----------------------------------------------------------------------------
(* PrayerApiClient._get, one call at a time *)

\* the largest max_retries handed to the constructor
MaxRetries == 2

\* backoff_base_seconds handed to the constructor, in half seconds
BackoffBases == {-2, 0, 1, 2}

\* what one self._session.get(...) does: it raises a RequestException, or it
\* answers with a status and a body that is a JSON object, other JSON, or no JSON
Outcomes ==
    {[kind |-> "transport", status |-> 0, body |-> "none"]}
    \cup [kind : {"response"}, status : {200}, body : {"object", "list", "invalid"}]
    \cup [kind : {"response"}, status : {204, 302, 400, 404, 500, 503}, body : {"none"}]

\* no call of the client in progress
ApiIdle ==
    [pc |-> "idle", maxRetries |-> 0, base |-> 0, attempt |-> 0, calls |-> 0,
     sleeps |-> <<>>, outcomes |-> <<>>, error |-> "none"]

\* __init__: max(0, int(max_retries)) and max(0.0, float(backoff_base_seconds))
ClampLow(n) == IF n < 0 THEN 0 ELSE n

RetriesClientErrors(o) == o.kind = "transport" \/ o.status >= 400

\* _get: should_retry after an attempt: a RequestException or a status >= 500
ShouldRetry(o) == o.kind = "transport" \/ (o.status # 200 /\ o.status >= 500)

RetryAfterLast(attempt, maxRetries) == attempt <= maxRetries

\* _get: `attempt < self._max_retries`
MayRetry(attempt, maxRetries) == attempt < maxRetries

\* _get: delay = self._backoff_base_seconds * (2 ** attempt)
Delay(base, attempt) == base * (2 ^ attempt)

SleepsAlways(delay) == TRUE

\* _get: `if delay > 0: self._sleep(delay)`
Sleeps(delay) == delay > 0

\* get_date / get_range -> _get is entered on a client built with these values
ApiCall(maxRetries, base) ==
    /\ api.pc = "idle"
    /\ api' = [ApiIdle EXCEPT !.pc = "get", !.maxRetries = ClampLow(maxRetries),
                              !.base = ClampLow(base)]
    /\ UNCHANGED <<fetch, schedVars, playVars, keepVars, toolVars, moreVars>>

\* the state of _get after the attempt numbered a.attempt met outcome o
AfterAttempt(a, o) ==
    LET b == [a EXCEPT !.calls = @ + 1, !.outcomes = Append(@, o)]
    IN IF o.kind = "response" /\ o.status = 200
       THEN IF o.body = "object" THEN [b EXCEPT !.pc = "returned"]
            ELSE [b EXCEPT !.pc = "raised", !.error = "ApiError"]
       ELSE IF ShouldRetry(o) /\ MayRetry(a.attempt, a.maxRetries)
       THEN LET c == IF Sleeps(Delay(a.base, a.attempt))
                     THEN [b EXCEPT !.sleeps = Append(@, Delay(a.base, a.attempt))]
                     ELSE b
            IN IF a.attempt + 1 < a.maxRetries + 1
               THEN [c EXCEPT !.attempt = @ + 1]
               ELSE [c EXCEPT !.pc = "raised", !.error = "ApiError"]
       ELSE [b EXCEPT !.pc = "raised", !.error = "ApiError"]

\* _get: one turn of `for attempt in range(attempts)`
ApiAttempt(o) ==
    /\ api.pc = "get"
    /\ api' = AfterAttempt(api, o)
    /\ UNCHANGED <<fetch, schedVars, playVars, keepVars, toolVars, moreVars>>

\* the caller has the payload or the error; the client is free again
ApiDone ==
    /\ api.pc \in {"returned", "raised"}
    /\ api' = ApiIdle
    /\ UNCHANGED <<fetch, schedVars, playVars, keepVars, toolVars, moreVars>>

NextApi ==
    \/ \E maxRetries \in -1 .. MaxRetries, base \in BackoffBases : ApiCall(maxRetries, base)
    \/ \E o \in Outcomes : ApiAttempt(o)
    \/ ApiDone

-----------------------------------------------------------------------------
(* PrayerTimeService.prefetch, one call at a time *)

\* no prefetch under study
FetchIdle ==
    [pc |-> "idle", start |-> 0, days |-> 0, offset |-> 0, queries |-> <<>>,
     plans |-> <<>>, rangeFailed |-> FALSE, before |-> EmptyCache,
     plan |-> NoPlan, next |-> NoPlan, out |-> NoPlan, given |-> NoPlan]

\* the times mappings the remote API answers with
TestApiTimes == {
    ("fajr" :> <<5, 0>>) @@ ("maghrib" :> <<18, 0>>),
    ("fajr" :> <<5, 1>>) @@ ("maghrib" :> <<18, 0>>),
    ("fajr" :> <<5, 0>>) @@ ("maghrib" :> <<0, 10>>),
    ("fajr" :> <<5, 0>>),
    ("fajr" :> <<5, 0>>) @@ ("maghrib" :> <<18, 0>>) @@ ("sunset" :> <<17, 45>>)
        @@ ("midnight" :> <<23, 0>>),
    ("fajr" :> <<5, 0>>) @@ ("maghrib" :> <<18, 0>>) @@ ("midnight" :> <<23, 0>>)
        @@ ("tahajjud" :> <<2, 0>>) }

\* the cache after `for plan in enriched: self._cache.write(key, plan.to_dict())`;
\* a later plan of the same date overwrites an earlier one
WritePlans(c, plans) ==
    LET enriched == DeriveMissingExtras(plans)
        last(d) == CHOOSE i \in 1 .. Len(plans) :
                      /\ plans[i].date = d
                      /\ \A k \in (i + 1) .. Len(plans) : plans[k].date # d
    IN [d \in CacheDays |->
          IF \E i \in 1 .. Len(plans) : plans[i].date = d THEN enriched[last(d)] ELSE c[d]]

CacheCleared(c) == EmptyCache

\* prefetch: `if not plans: ... return`: the cache is left as it is
CacheKept(c) == c

AbortAfterFailure(f) == [f EXCEPT !.offset = f.days]

\* _fetch_per_date: `except ApiError: log`, and the loop goes on
ContinueAfterFailure(f) == [f EXCEPT !.offset = @ + 1]

\* prefetch(days) is entered: start = today
FetchCall(days) ==
    /\ fetch.pc = "idle"
    /\ fetch' = [FetchIdle EXCEPT !.pc = "range", !.start = DateOf(now), !.days = days,
                                  !.before = cache]
    /\ UNCHANGED <<api, schedVars, playVars, keepVars, toolVars, moreVars>>

\* prefetch: get_range(start, end) raises ApiError, or day_plans_from_range
\* yields the plans of the dates `got` (none, some or all of the window)
FetchRange ==
    /\ fetch.pc = "range"
    /\ \E failed \in BOOLEAN, got \in SUBSET (fetch.start .. (fetch.start + fetch.days - 1)) :
       /\ failed => got = {}
       /\ LET order == SortedDays(got)
              q == [kind |-> "range", from |-> fetch.start,
                     to |-> fetch.start + fetch.days - 1, ok |-> ~failed]
          IN fetch' = [fetch EXCEPT
                          !.queries = Append(@, q),
                          !.rangeFailed = failed,
                          !.plans = [i \in 1 .. Len(order) |-> DayPlanFromApi(order[i])],
                          !.pc = IF got = {} THEN "dates" ELSE "collected"]
    /\ UNCHANGED <<api, schedVars, playVars, keepVars, toolVars, moreVars>>

\* _fetch_per_date: one turn of the loop: get_date raises ApiError, or answers
FetchDate(failed, times) ==
    /\ fetch.pc = "dates"
    /\ fetch.offset < fetch.days
    /\ LET current == fetch.start + fetch.offset
           asked == [fetch EXCEPT
                        !.queries = Append(@, [kind |-> "date", from |-> current,
                                                to |-> current, ok |-> ~failed])]
       IN fetch' = IF failed THEN ContinueAfterFailure(asked)
                   ELSE [asked EXCEPT !.offset = @ + 1,
                                      !.plans = Append(@, [date |-> current,
                                                           times |-> times])]
    /\ UNCHANGED <<api, schedVars, playVars, keepVars, toolVars, moreVars>>

\* _fetch_per_date returns its plans
FetchDatesEnd ==
    /\ fetch.pc = "dates"
    /\ fetch.offset >= fetch.days
    /\ fetch' = [fetch EXCEPT !.pc = "collected"]
    /\ UNCHANGED <<api, schedVars, playVars, keepVars, toolVars, moreVars>>

\* prefetch: nothing fetched: return; else derive and write every plan
FetchWrite ==
    /\ fetch.pc = "collected"
    /\ cache' = IF fetch.plans = <<>> THEN CacheKept(cache)
                ELSE WritePlans(cache, fetch.plans)
    /\ fetch' = [fetch EXCEPT !.pc = "done"]
    /\ UNCHANGED <<now, jobs, fired, lastOp, booted, api, playVars, keepVars, toolVars, moreVars>>

NextFetch ==
    \/ \E days \in 1 .. PrefetchDays : FetchCall(days)
    \/ FetchRange
    \/ \E t \in TestApiTimes : FetchDate(FALSE, t)
    \/ FetchDate(TRUE, <<>>)
    \/ FetchDatesEnd
    \/ FetchWrite

-----------------------------------------------------------------------------
(* _derive_extras applied to one pair of plans *)

\* the date of the plan handed to _derive_extras
DeriveDay == 1

\* the plans handed to _derive_extras as plan and as next_plan (None: NoPlan)
DerivePlans == [date : {DeriveDay}, times : TestApiTimes]

DeriveNexts ==
    {NoPlan} \cup [date : {DeriveDay, DeriveDay + 1, DeriveDay + 2}, times : TestApiTimes]

InputAliased(plan, out) == out

\* _derive_extras: `times = dict(plan.times)`: the additions go to a copy, and
\* the caller's plan is after the call what it was
InputAfter(plan, out) == plan

\* _derive_extras(plan, next_plan) returns
DeriveApply ==
    /\ fetch.pc = "derive"
    /\ LET out == DeriveExtras(fetch.plan, fetch.next)
       IN fetch' = [fetch EXCEPT !.pc = "derived", !.out = out,
                                 !.plan = InputAfter(fetch.plan, out)]
    /\ UNCHANGED <<api, schedVars, playVars, keepVars, toolVars, moreVars>>


-----------------------------------------------------------------------------
(* TestScheduleService (test_scheduler.py) over the same job store *)

\* max_pending_tests
MaxPendingTests == 2

\* max_minutes_ahead
MaxMinutesAhead == 3

\* no call of the service made yet
TestsIdle ==
    [op |-> "none", arg |-> <<>>, raised |-> FALSE, ret |-> <<>>, before |-> {}, at |-> 0]

\* run_at.strftime('%Y%m%d%H%M'): 12 digits, kept as the pair of the 8 digits
\* of the date and the 4 digits of the time
TestStamp(runAt) == <<Ymd(DateOf(runAt)), Compact(FormatHM(runAt))>>

\* f"{self.job_prefix}_{run_at.strftime('%Y%m%d%H%M')}"
TestJobId(runAt) == <<Word("test_audio"), Digits(12, TestStamp(runAt))>>

\* job.id.startswith(self.job_prefix): no other id of the store begins with
\* the word test_audio
StartsWithPrefix(id) == id[1] = Word("test_audio")

\* the DateTrigger job that _schedule adds
TestJob(runAt) ==
    [id |-> TestJobId(runAt), run_at |-> runAt, event |-> <<"test_audio">>,
     date |-> DateOf(runAt), late |-> FALSE]

CountsEveryJob(js) == js

\* _ensure_capacity: [job for job in get_jobs() if job.id.startswith(prefix)]
PendingTests(js) == {j \in js : StartsWithPrefix(j.id)}

OverCapacity(pending) == pending > MaxPendingTests

\* _ensure_capacity: pending >= self.max_pending_tests
AtCapacity(pending) == pending >= MaxPendingTests

\* the outcome of a call that raises ValueError: nothing is added
Rejected(js) == [raised |-> TRUE, jobs |-> js, ret |-> <<>>]

\* TestScheduleService._schedule
ScheduleTest(js, runAt) ==
    IF AtCapacity(Cardinality(PendingTests(js))) THEN Rejected(js)
    ELSE [raised |-> FALSE, jobs |-> AddJob(js, TestJob(runAt)), ret |-> TestJobId(runAt)]

HorizonExclusive(delta) == delta >= MaxMinutesAhead

\* schedule_test_in_minutes: minutes > self.max_minutes_ahead
ExceedsHorizon(minutes) == minutes > MaxMinutesAhead

\* TestScheduleService.schedule_test_in_minutes(minutes) at clock t
ScheduleTestInMinutes(js, minutes, t) ==
    IF minutes <= 0 THEN Rejected(js)
    ELSE IF ExceedsHorizon(minutes) THEN Rejected(js)
    ELSE ScheduleTest(js, t + minutes)

\* now.replace(hour=hour, minute=minute) accepts the fields
ValidHM(hhmm) == hhmm[1] \in 0 .. 23 /\ hhmm[2] \in 0 .. 59

SameDayOnly(candidate, t) == candidate

\* schedule_test_at_time: if candidate <= now: candidate += timedelta(days=1)
TodayOrTomorrow(candidate, t) ==
    IF candidate <= t THEN candidate + MinutesPerDay ELSE candidate

\* _ensure_within_limits raises
OutsideLimits(runAt, t) == (runAt - t <= 0) \/ (runAt - t > MaxMinutesAhead)

\* TestScheduleService.schedule_test_at_time(hhmm) at clock t
ScheduleTestAtTime(js, hhmm, t) ==
    IF ~ValidHM(hhmm) THEN Rejected(js)
    ELSE LET candidate == TodayOrTomorrow(Combine(DateOf(t), hhmm), t)
         IN IF OutsideLimits(candidate, t) THEN Rejected(js)
            ELSE ScheduleTest(js, candidate)

CancelKeepsJob(js, id) == [found |-> \E j \in js : j.id = id, jobs |-> js]

\* TestScheduleService.cancel_test_job(job_id)
CancelTestJob(js, id) ==
    IF \E j \in js : j.id = id
    THEN [found |-> TRUE, jobs |-> RemoveJob(js, id)]
    ELSE [found |-> FALSE, jobs |-> js]

\* the clock of the test-scheduler specification starts two minutes before
\* midnight of date 0, so that HH:MM of today and of tomorrow both occur
TestStart == Combine(0, <<23, 58>>)

\* the HH:MM texts handed to schedule_test_at_time
TestHMs == {<<23, 58>>, <<23, 59>>, <<0, 0>>, <<0, 1>>, <<0, 2>>, <<0, 3>>, <<12, 0>>,
            <<24, 0>>, <<0, 60>>}

\* the numbers handed to schedule_test_in_minutes
TestMinutes == -1 .. (MaxMinutesAhead + 1)

\* the ids handed to cancel_test_job
TestCancelIds ==
    {TestJobId(t) : t \in TestStart .. (TestStart + MaxMinutesAhead + 1)} \cup {RefreshJobId}

\* service.schedule_test_at_time(hhmm)
ScheduleAtTimeCall(hhmm) ==
    /\ LET r == ScheduleTestAtTime(jobs, hhmm, now)
       IN /\ jobs' = r.jobs
          /\ tests' = [op |-> "at_time", arg |-> hhmm, raised |-> r.raised, ret |-> r.ret,
                       before |-> jobs, at |-> now]
    /\ UNCHANGED <<now, cache, fired, lastOp, booted, playVars, keepVars, restVars,
                   bt, probe, refresh, moreVars>>

\* service.schedule_test_in_minutes(minutes)
ScheduleInMinutesCall(minutes) ==
    /\ LET r == ScheduleTestInMinutes(jobs, minutes, now)
       IN /\ jobs' = r.jobs
          /\ tests' = [op |-> "in_minutes", arg |-> <<minutes>>, raised |-> r.raised,
                       ret |-> r.ret, before |-> jobs, at |-> now]
    /\ UNCHANGED <<now, cache, fired, lastOp, booted, playVars, keepVars, restVars,
                   bt, probe, refresh, moreVars>>

\* service.cancel_test_job(id)
CancelCall(id) ==
    /\ LET r == CancelTestJob(jobs, id)
       IN /\ jobs' = r.jobs
          /\ tests' = [op |-> "cancel", arg |-> id, raised |-> FALSE, ret |-> <<r.found>>,
                       before |-> jobs, at |-> now]
    /\ UNCHANGED <<now, cache, fired, lastOp, booted, playVars, keepVars, restVars,
                   bt, probe, refresh, moreVars>>

\* the scheduler thread runs a due test job: it leaves the store
TestFire ==
    /\ \E j \in PendingTests(jobs) :
          /\ j.run_at <= now
          /\ jobs' = RemoveJob(jobs, j.id)
    /\ tests' = [TestsIdle EXCEPT !.op = "fire", !.before = jobs, !.at = now]
    /\ UNCHANGED <<now, cache, fired, lastOp, booted, playVars, keepVars, restVars,
                   bt, probe, refresh, moreVars>>

\* now_provider() advances by a minute; a test job runs in the minute it is due
TestTick ==
    /\ now < TestStart + MaxMinutesAhead
    /\ \A j \in PendingTests(jobs) : j.run_at > now
    /\ now' = now + 1
    /\ tests' = [TestsIdle EXCEPT !.op = "tick", !.before = jobs, !.at = now + 1]
    /\ UNCHANGED <<jobs, cache, fired, lastOp, booted, playVars, keepVars, restVars,
                   bt, probe, refresh, moreVars>>

NextTests ==
    \/ \E hhmm \in TestHMs : ScheduleAtTimeCall(hhmm)
    \/ \E minutes \in TestMinutes : ScheduleInMinutesCall(minutes)
    \/ \E id \in TestCancelIds : CancelCall(id)
    \/ TestFire
    \/ TestTick

-----------------------------------------------------------------------------
(* BluetoothManager.ensure_connected and ensure_connected_once, one call *)

\* the longest backoff_seconds list of the model
MaxBackoff == 3

\* the delays a backoff list is made of
BackoffDelays == {1, 2}

\* the backoff_seconds lists: every list of at most MaxBackoff delays
BackoffLists == UNION {[1 .. n -> BackoffDelays] : n \in 0 .. MaxBackoff}

\* no call in progress
BtIdle ==
    [pc |-> "idle", mode |-> "none", backoff |-> <<>>, sink |-> FALSE, idx |-> 1,
     trace |-> <<>>, result |-> "none"]

\* what runner.run(["bluetoothctl", "info", mac]) gives: "yes" for an exit
\* code 0 with a Connected: yes line, "no" for any other completed run,
\* "timeout" for subprocess.TimeoutExpired
StatusOutcomes == {"yes", "no", "timeout"}

\* what runner.run(["bluetoothctl", "connect", mac]) gives: exit code 0,
\* another exit code, or subprocess.TimeoutExpired
ConnectOutcomes == {"ok", "fail", "timeout"}

\* the call ends by returning a value or by raising
BtEnd(b, result) == [b EXCEPT !.pc = "done", !.result = result]

\* an event of the call, as the fakes of the tests record them
BtEvent(b, ev) == [b EXCEPT !.trace = Append(@, ev)]

\* manager.ensure_connected() or manager.ensure_connected_once() is entered
EnsureCall(mode, backoff, sink) ==
    /\ bt.pc = "idle"
    /\ bt' = [BtIdle EXCEPT !.pc = "status", !.mode = mode, !.backoff = backoff,
                            !.sink = sink]
    /\ UNCHANGED <<schedVars, playVars, keepVars, restVars, tests, probe, refresh, moreVars>>

TonesWhenConnected(b) == BtEnd(BtEvent(b, <<"tone">>), "true")

\* if self._is_connected(): return True
AlreadyConnected(b) == BtEnd(b, "true")

\* the first _is_connected() of either method
EnsureStatus(outcome) ==
    /\ bt.pc = "status"
    /\ LET asked == BtEvent(bt, <<"info", outcome>>)
       IN bt' = CASE outcome = "yes" -> AlreadyConnected(asked)
                  [] outcome = "no" -> [asked EXCEPT !.pc = "loop"]
                  [] OTHER -> BtEnd(asked, "raised")
    /\ UNCHANGED <<schedVars, playVars, keepVars, restVars, tests, probe, refresh, moreVars>>

\* the attempts ensure_connected makes: one per element of backoff_seconds;
\* ensure_connected_once makes one
MoreAttempts(b) ==
    IF b.mode = "full" THEN b.idx <= Len(b.backoff) ELSE b.idx <= 1

\* _connect_once: runner.run(["bluetoothctl", "connect", mac])
EnsureConnect(outcome) ==
    /\ bt.pc = "loop"
    /\ MoreAttempts(bt)
    /\ LET asked == BtEvent(bt, <<"connect", outcome>>)
       IN bt' = CASE outcome = "ok" -> [asked EXCEPT !.pc = "recheck"]
                  [] outcome = "fail" -> [asked EXCEPT !.pc = "failed"]
                  [] OTHER -> BtEnd(asked, "raised")
    /\ UNCHANGED <<schedVars, playVars, keepVars, restVars, tests, probe, refresh, moreVars>>

\* _connect_once: return self._is_connected()
EnsureRecheck(outcome) ==
    /\ bt.pc = "recheck"
    /\ LET asked == BtEvent(bt, <<"info", outcome>>)
       IN bt' = CASE outcome = "yes" -> [asked EXCEPT !.pc = "connected"]
                  [] outcome = "no" -> [asked EXCEPT !.pc = "failed"]
                  [] OTHER -> BtEnd(asked, "raised")
    /\ UNCHANGED <<schedVars, playVars, keepVars, restVars, tests, probe, refresh, moreVars>>

\* after a _connect_once that returned True: ensure_connected reasserts the
\* default sink when configured, both methods play the connected tone (when
\* its file exists; a failure of the tone is caught) and return True
EnsureConnected(toneExists) ==
    /\ bt.pc = "connected"
    /\ LET sunk == IF bt.mode = "full" /\ bt.sink THEN BtEvent(bt, <<"sink">>) ELSE bt
           toned == IF toneExists THEN BtEvent(sunk, <<"tone">>) ELSE sunk
       IN bt' = BtEnd(toned, "true")
    /\ UNCHANGED <<schedVars, playVars, keepVars, restVars, tests, probe, refresh, moreVars>>

\* ensure_connected: self.sleep(delay) after the attempt that failed
SleepsAfterAttempt(b) == BtEvent(b, <<"sleep", b.backoff[b.idx]>>)

\* after a _connect_once that returned False: ensure_connected sleeps the
\* delay of this turn and goes on; ensure_connected_once returns False
EnsureFailed ==
    /\ bt.pc = "failed"
    /\ bt' = IF bt.mode = "full"
             THEN [SleepsAfterAttempt(bt) EXCEPT !.pc = "loop", !.idx = @ + 1]
             ELSE BtEnd(bt, "false")
    /\ UNCHANGED <<schedVars, playVars, keepVars, restVars, tests, probe, refresh, moreVars>>

\* ensure_connected: the list is used up: return False
EnsureGiveUp ==
    /\ bt.pc = "loop"
    /\ ~MoreAttempts(bt)
    /\ bt' = BtEnd(bt, "false")
    /\ UNCHANGED <<schedVars, playVars, keepVars, restVars, tests, probe, refresh, moreVars>>

NextBt ==
    \/ \E mode \in {"full", "once"}, backoff \in BackoffLists, sink \in BOOLEAN :
           EnsureCall(mode, backoff, sink)
    \/ \E outcome \in StatusOutcomes : EnsureStatus(outcome)
    \/ \E outcome \in ConnectOutcomes : EnsureConnect(outcome)
    \/ \E outcome \in StatusOutcomes : EnsureRecheck(outcome)
    \/ \E toneExists \in BOOLEAN : EnsureConnected(toneExists)
    \/ EnsureFailed
    \/ EnsureGiveUp

-----------------------------------------------------------------------------
(* FfprobeDurationProbe and PlaybackTimeoutPolicy *)

\* A duration is a number of tenths of a second: "12.2" is 122.  An Optional
\* value is <<>> for None and <<v>> for the value v.
MaxMtime == 2
MaxSize == 2
MaxRuns == 3

None == <<>>

\* (st_mtime_ns, st_size) of the audio file, or None when stat() fails
StatKeys == (1 .. MaxMtime) \X (1 .. MaxSize)
FileStates == {None} \cup StatKeys

Strategies == {"auto", "fixed"}
Fallbacks == {0, 300}
Buffers == {0 - 13, 0, 5}

\* how a run of ffprobe ends: it exceeds timeout_seconds, exits with a
\* non-zero code, prints a text float() rejects ("N/A"), or prints a number
ToolOutcomes == {<<"timeout">>, <<"exit">>, <<"invalid">>} \cup {<<"value", d>> : d \in {0 - 10, 0, 100, 122}}

ProbeIdle ==
    [pc |-> "idle", strategy |-> "fixed", fallback |-> 300, buffer |-> 0, hasProbe |-> FALSE,
     file |-> None, cache |-> None, runs |-> 0, tick |-> 0,
     key |-> None, how |-> "none", duration |-> None, ret |-> None]

\* fallback = None if self.fallback_seconds == 0 else self.fallback_seconds
FallbackOf(p) == IF p.fallback = 0 THEN None ELSE <<p.fallback>>

\* math.floor of a number of tenths
FloorTenths(x) == x \div 10

\* math.ceil of a number of tenths
CeilTenths(x) == 0 - ((0 - x) \div 10)

\* resolve from the probe's answer on: duration is None or <<tenths>>
TimeoutFor(p, duration) ==
    IF duration = None THEN FallbackOf(p)
    ELSE LET timeout == CeilTenths(duration[1] + 10 * p.buffer)
         IN  IF timeout <= 0 THEN FallbackOf(p) ELSE <<timeout>>

\* the cached entry is used whatever identity it was stored under
CacheHitAnyKey(cached, key) == cached # None

\* cached and cached[0] == stat_key
CacheHit(cached, key) == cached # None /\ cached[1] = key

\* the call is over: duration_seconds returned `duration` (or was not called)
ProbeEnd(p, how, duration) ==
    [p EXCEPT !.pc = "idle", !.how = how, !.duration = duration, !.ret = TimeoutFor(p, duration)]

\* PlaybackTimeoutPolicy.resolve(path), up to the start of ffprobe; whichOk:
\* runner.which("ffprobe") finds the tool
ResolveCall(whichOk) ==
    /\ probe.pc = "idle"
    /\ probe.runs < MaxRuns
    /\ LET p == [probe EXCEPT !.tick = 1 - probe.tick, !.key = None]
       IN  probe' =
             IF p.strategy # "auto" THEN ProbeEnd(p, "fixed", None)
             ELSE IF ~p.hasProbe THEN ProbeEnd(p, "noprobe", None)
             ELSE IF ~whichOk THEN ProbeEnd(p, "nowhich", None)
             ELSE LET q == [p EXCEPT !.key = p.file]
                  IN  IF q.key # None /\ CacheHit(q.cache, q.key)
                      THEN ProbeEnd(q, "hit", <<q.cache[2]>>)
                      ELSE [q EXCEPT !.pc = "running", !.how = "running", !.runs = q.runs + 1,
                                     !.duration = None, !.ret = None]
    /\ UNCHANGED <<schedVars, playVars, keepVars, restVars, tests, bt, refresh, moreVars>>

\* ffprobe ends, and duration_seconds and resolve with it
ToolEnds(outcome) ==
    /\ probe.pc = "running"
    /\ probe' =
         IF outcome[1] # "value" THEN ProbeEnd(probe, outcome[1], None)
         ELSE IF outcome[2] <= 0 THEN ProbeEnd(probe, "nonpositive", None)
         ELSE LET key == IF probe.key # None THEN probe.key ELSE probe.file
                  p == IF key # None THEN [probe EXCEPT !.cache = <<key, outcome[2]>>] ELSE probe
              IN  ProbeEnd(p, "ok", <<outcome[2]>>)
    /\ UNCHANGED <<schedVars, playVars, keepVars, restVars, tests, bt, refresh, moreVars>>

\* the audio file is rewritten, removed or restored, at any moment
FileChange(f) ==
    /\ f # probe.file
    /\ probe' = [probe EXCEPT !.file = f]
    /\ UNCHANGED <<schedVars, playVars, keepVars, restVars, tests, bt, refresh, moreVars>>

NextProbe ==
    \/ \E whichOk \in BOOLEAN : ResolveCall(whichOk)
    \/ \E outcome \in ToolOutcomes : ToolEnds(outcome)
    \/ \E f \in FileStates : FileChange(f)

-----------------------------------------------------------------------------
(* The refresh callback *)

MaxInstalls == 2

\* what goes wrong in one run of refresh() besides the API's own errors:
\* nothing; a payload whose date text strptime rejects; a time text that
\* _combine rejects in the derivation; the second cache.write failing with
\* OSError; the cache.read of today's file failing with OSError
Faults == {<<"none">>, <<"malformed">>, <<"derive">>, <<"read">>, <<"write", 2>>}

\* what the API calls of one prefetch at clock t return, as <<rangeGot,
\* dateGot>>: the range query answers and no per-date query is made, or it
\* fails and the per-date queries fail for all dates, or for today only, or
\* for tomorrow only
ApiOutcomes(t) ==
    {<<Window(t), {}>>, <<{}, {}>>} \cup {<<{}, Window(t) \ {x}>> : x \in {DateOf(t), DateOf(t) + 1}}

RefreshIdle ==
    [installs |-> 0, n |-> 0, kind |-> "none", fault |-> <<"none">>, calls |-> <<>>, error |-> "none"]

\* the cache after the first n writes of prefetch
PrefetchWrites(c, t, rangeGot, dateGot, n) ==
    LET got == IF rangeGot # {} THEN rangeGot ELSE dateGot
        order == SortedDays(got)
        full == Prefetch(c, t, rangeGot, dateGot)
    IN [d \in CacheDays |-> IF \E i \in 1 .. n : i <= Len(order) /\ order[i] = d THEN full[d] ELSE c[d]]

\* prefetch(days) with the fault: the cache it leaves and the exception that
\* leaves it ("none" when it returns)
PrefetchRun(c, t, rangeGot, dateGot, fault) ==
    LET got == IF rangeGot # {} THEN rangeGot ELSE dateGot
    IN IF got = {} THEN [cache |-> c, error |-> "none"]
       ELSE IF fault[1] \in {"malformed", "derive"} THEN [cache |-> c, error |-> "ValueError"]
       ELSE IF fault[1] = "write" /\ fault[2] <= Cardinality(got)
            THEN [cache |-> PrefetchWrites(c, t, rangeGot, dateGot, fault[2] - 1), error |-> "OSError"]
       ELSE [cache |-> Prefetch(c, t, rangeGot, dateGot), error |-> "none"]

\* the dates refresh() would reschedule if it took the whole prefetch window
RefreshWindow(t) == [i \in 1 .. PrefetchDays |-> DateOf(t) + i - 1]

\* for day in [today, today + timedelta(days=1)]
RefreshDates(t) == <<DateOf(t), DateOf(t) + 1>>

\* prayer_service.get_day(day) inside refresh(): None when the file is
\* missing or cannot be read
GetDayRead(c, day, t, fault) ==
    IF fault[1] = "read" /\ day = DateOf(t) THEN NoPlan ELSE GetDay(c, day)

RECURSIVE ScheduleDays(_, _, _, _, _, _)
\* the loop of refresh() over dates[i..]: the jobs it leaves and the dates it
\* called schedule_day for
ScheduleDays(js, c, t, fault, dates, i) ==
    IF i > Len(dates) THEN [jobs |-> js, calls |-> <<>>]
    ELSE LET plan == GetDayRead(c, dates[i], t, fault)
         IN IF plan = NoPlan THEN ScheduleDays(js, c, t, fault, dates, i + 1)
            ELSE LET rest == ScheduleDays(ScheduleDay(js, plan, {}, t), c, t, fault, dates, i + 1)
                 IN [jobs |-> rest.jobs, calls |-> <<dates[i]>> \o rest.calls]

\* refresh() at clock t
RefreshRun(js, c, t, rangeGot, dateGot, fault) ==
    LET p == PrefetchRun(c, t, rangeGot, dateGot, fault)
        s == ScheduleDays(js, p.cache, t, fault, RefreshDates(t), 1)
    IN IF p.error # "none"
       THEN [jobs |-> js, cache |-> p.cache, calls |-> <<>>, error |-> p.error]
       ELSE [jobs |-> s.jobs, cache |-> p.cache, calls |-> s.calls, error |-> "none"]

\* schedule_refresh(scheduler, prayer_service, prefetch_days)
ScheduleRefreshCall(fault) ==
    /\ refresh.installs < MaxInstalls
    /\ \E got \in ApiOutcomes(now) :
          LET r == RefreshRun(ScheduleRefreshJob(jobs, now), cache, now, got[1], got[2], fault)
          IN /\ jobs' = r.jobs
             /\ cache' = r.cache
             /\ refresh' = [installs |-> refresh.installs + 1, n |-> 1 - refresh.n, kind |-> "install",
                            fault |-> fault, calls |-> r.calls, error |-> r.error]
    /\ UNCHANGED <<now, fired, lastOp, booted, playVars, keepVars, restVars, tests, bt, probe, moreVars>>

\* the scheduler thread runs the due refresh_daily job: the cron trigger
\* arms it for the next 00:05 and the callback runs
RefreshCallback(fault) ==
    /\ \E j \in jobs, got \in ApiOutcomes(now) :
          /\ j.id = RefreshJobId
          /\ j.run_at <= now
          /\ LET next == [j EXCEPT !.run_at = NextRefresh(now), !.date = DateOf(NextRefresh(now))]
                 r == RefreshRun(AddJob(jobs, next), cache, now, got[1], got[2], fault)
             IN /\ jobs' = r.jobs
                /\ cache' = r.cache
                /\ refresh' = [refresh EXCEPT !.n = 1 - refresh.n, !.kind = "callback", !.fault = fault,
                                              !.calls = r.calls, !.error = r.error]
    /\ UNCHANGED <<now, fired, lastOp, booted, playVars, keepVars, restVars, tests, bt, probe, moreVars>>

\* the clock reaches the run time of refresh_daily; the DateTrigger jobs that
\* came due on the way have been processed and have left the store
ClockToRefresh ==
    /\ \E j \in jobs :
          /\ j.id = RefreshJobId
          /\ j.run_at > now
          /\ j.run_at <= (MaxDay + 1) * MinutesPerDay - 1
          /\ now' = j.run_at
          /\ jobs' = {k \in jobs : ~IsDayJob(k) \/ k.run_at > j.run_at}
    /\ UNCHANGED <<cache, fired, lastOp, booted, playVars, keepVars, restVars, toolVars, moreVars>>

-----------------------------------------------------------------------------
(* PlaybackHandler.handle_event on one thread, with the whole _select_audio *)

\* An event name is the pair <<head, rest>> of its text head ++ rest, head
\* being "quran@" when the text starts with it and "" otherwise.
PlainName(text) == <<"", text>>

QuranName(label) == <<"quran@", label>>

\* config.audio.volumes
TestVolumes ==
    [test_percent |-> 70, fajr_adhan_percent |-> 60, adhan_percent |-> 65,
     notification_percent |-> 50, quran_percent |-> 55]

\* config.audio.adhan and config.audio.notifications
TestAdhan ==
    [fajr |-> "adhan_fajr.mp3", dhuhr |-> "adhan_dhuhr.mp3", asr |-> "adhan_asr.mp3",
     maghrib |-> "adhan_maghrib.mp3", isha |-> "adhan_isha.mp3"]

TestNotifications ==
    [sunrise |-> "sunrise.mp3", sunset |-> "sunset.mp3", midnight |-> "midnight.mp3",
     tahajjud |-> "tahajjud.mp3"]

\* config.audio.quran_schedule: none, one item, two items, two items of one label
QuranSchedules ==
    { <<>>,
      <<[time |-> "06:30", file |-> "quran_morning.mp3"]>>,
      <<[time |-> "21:00", file |-> "quran_night.mp3"], [time |-> "06:30", file |-> "quran_morning.mp3"]>>,
      <<[time |-> "06:30", file |-> "quran_morning.mp3"], [time |-> "06:30", file |-> "quran_other.mp3"]>> }

AudioConfigs ==
    { [test_audio |-> "test_beep.mp3", adhan |-> TestAdhan, notifications |-> TestNotifications,
       volumes |-> TestVolumes, quran_schedule |-> q] : q \in QuranSchedules }

\* the names handle_event is called with
SelectNames ==
    { PlainName(n) : n \in {"test_audio", "fajr", "dhuhr", "asr", "maghrib", "isha", "sunrise",
                            "sunset", "midnight", "tahajjud", "quran", "Fajr", "refresh", ""} }
    \cup { QuranName(l) : l \in {"06:30", "21:00", "6:30", "06:30 ", "06:31", ""} }

SelIdle ==
    [pc |-> "idle", audio |-> <<>>, name |-> PlainName(""), gate |-> "none", trace |-> <<>>,
     ret |-> "none"]

RECURSIVE FirstItem(_, _, _)
\* `for item in self._audio.quran_schedule: if item.time == time_label: return`
FirstItem(schedule, label, i) ==
    IF i > Len(schedule) THEN None
    ELSE IF schedule[i].time = label THEN <<schedule[i].file>>
    ELSE FirstItem(schedule, label, i + 1)

FajrVolumeForAll(volumes) == volumes.fajr_adhan_percent

\* self._audio.volumes.adhan_percent, the volume of dhuhr, asr, maghrib, isha
SharedAdhanVolume(volumes) == volumes.adhan_percent

\* PlaybackHandler._select_audio(event_name): None or <<file, volume>>
SelectAudioIn(audio, name) ==
    IF name = PlainName("test_audio") THEN <<audio.test_audio, audio.volumes.test_percent>>
    ELSE IF name = PlainName("fajr") THEN <<audio.adhan.fajr, audio.volumes.fajr_adhan_percent>>
    ELSE IF name[1] = "" /\ name[2] \in {"dhuhr", "asr", "maghrib", "isha"}
         THEN <<audio.adhan[name[2]], SharedAdhanVolume(audio.volumes)>>
    ELSE IF name[1] = "" /\ name[2] \in {"sunrise", "sunset", "midnight", "tahajjud"}
         THEN <<audio.notifications[name[2]], audio.volumes.notification_percent>>
    ELSE IF name[1] = "quran@"
         THEN LET item == FirstItem(audio.quran_schedule, name[2], 1)
              IN IF item = None THEN None ELSE <<item[1], audio.volumes.quran_percent>>
    ELSE None

\* how ensure_connected_once ends: found connected, reconnected (the
\* connected tone is played), or not connected
GateOutcomes == {"connected", "reconnected", "down"}

\* handle_event(event_name), whole: the trace holds the calls of player.play
\* made by ensure_connected_once ("tone") and by handle_event ("play")
HandleEventCall(name, gate, played) ==
    /\ LET tone == IF gate = "reconnected" THEN << <<"tone">> >> ELSE <<>>
           selection == SelectAudioIn(sel.audio, name)
       IN sel' = IF gate = "down"
                 THEN [sel EXCEPT !.pc = "done", !.name = name, !.gate = gate, !.trace = <<>>,
                                  !.ret = "false"]
                 ELSE IF selection = None
                 THEN [sel EXCEPT !.pc = "done", !.name = name, !.gate = gate, !.trace = tone,
                                  !.ret = "false"]
                 ELSE [sel EXCEPT !.pc = "done", !.name = name, !.gate = gate,
                                  !.trace = tone \o << <<"play", selection[1], selection[2]>> >>,
                                  !.ret = IF played THEN "true" ELSE "false"]
    /\ UNCHANGED <<schedVars, playVars, keepVars, restVars, toolVars, disk, web, cyc>>

NextSelect ==
    \E name \in SelectNames, gate \in GateOutcomes, played \in BOOLEAN :
        HandleEventCall(name, gate, played)


-----------------------------------------------------------------------------
(* CacheStore: the two files of one key, a write step by step, and crashes *)

\* the keys of a payload in the order json.dumps(sort_keys=True) writes them
KeyOrder == <<"city", "date", "fajr">>

\* the payloads handed to write: JSON objects with text values
Payloads ==
    { [k \in {} |-> ""],
      [k \in {"date"} |-> "2025-01-01"],
      ("date" :> "2025-01-01") @@ ("fajr" :> "05:00"),
      ("city" :> "colombo") @@ ("date" :> "2025-01-01") @@ ("fajr" :> "05:01") }

RECURSIVE Members(_, _)
\* the members of an object from KeyOrder[i] on, as tokens
Members(payload, i) ==
    IF i > Len(KeyOrder) THEN <<>>
    ELSE IF KeyOrder[i] \in DOMAIN payload
         THEN << <<"key", KeyOrder[i]>>, <<"text", payload[KeyOrder[i]]>> >> \o Members(payload, i + 1)
    ELSE Members(payload, i + 1)

\* json.dumps(payload, indent=2, sort_keys=True), as a sequence of tokens
Dumps(payload) == << <<"{">> >> \o Members(payload, 1) \o << <<"}">> >>

\* the text read is "{", then key and value tokens in pairs, then "}"
WellFormed(text) ==
    /\ Len(text) >= 2
    /\ text[1] = <<"{">>
    /\ text[Len(text)] = <<"}">>
    /\ (Len(text) - 2) % 2 = 0
    /\ \A i \in 2 .. (Len(text) - 1) : text[i][1] = (IF i % 2 = 0 THEN "key" ELSE "text")

\* json.loads(text) of a well-formed text: the object it denotes
Loads(text) ==
    LET pairs == {i \in 2 .. (Len(text) - 1) : i % 2 = 0}
    IN [k \in {text[i][2] : i \in pairs} |->
           text[(CHOOSE i \in pairs : text[i][2] = k) + 1][2]]

\* a file that does not exist
Absent == [exists |-> FALSE, text |-> <<>>]

File(text) == [exists |-> TRUE, text |-> text]

\* write_text straight into the file that read() reads
WrittenInPlace(files) == "json"

\* tmp_path = path.with_suffix(".tmp"): the file write_text writes
WrittenFile(files) == "tmp"

\* CacheStore.read(key) over the files: None, or <<payload>>
ReadOf(files) ==
    IF ~files["json"].exists THEN None
    ELSE IF ~WellFormed(files["json"].text) THEN None
    ELSE <<Loads(files["json"].text)>>

DiskIdle ==
    [pc |-> "idle", files |-> [f \in {"json", "tmp"} |-> Absent], data |-> <<>>,
     prev |-> None, new |-> None, last |-> "none", got |-> None]

\* CacheStore.write(key, payload): data = json.dumps(...)
WriteCall(payload) ==
    /\ disk.pc = "idle"
    /\ disk' = [disk EXCEPT !.pc = "open", !.data = Dumps(payload), !.prev = ReadOf(disk.files),
                            !.new = <<payload>>, !.last = "writing"]
    /\ UNCHANGED <<schedVars, playVars, keepVars, restVars, toolVars, sel, web, cyc>>

\* write_text: the file is created or truncated
WriteOpen ==
    /\ disk.pc = "open"
    /\ disk' = [disk EXCEPT !.pc = "write", !.files[WrittenFile(disk.files)] = File(<<>>)]
    /\ UNCHANGED <<schedVars, playVars, keepVars, restVars, toolVars, sel, web, cyc>>

\* write_text: the next piece of the text reaches the file; after the last
\* one the file is closed
WriteChunk ==
    /\ disk.pc = "write"
    /\ LET f == WrittenFile(disk.files)
           n == Len(disk.files[f].text)
       IN disk' = IF n < Len(disk.data)
                  THEN [disk EXCEPT !.files[f] = File(SubSeq(disk.data, 1, n + 1))]
                  ELSE [disk EXCEPT !.pc = "replace"]
    /\ UNCHANGED <<schedVars, playVars, keepVars, restVars, toolVars, sel, web, cyc>>

\* tmp_path.replace(path): the rename, atomic
WriteReplace ==
    /\ disk.pc = "replace"
    /\ LET f == WrittenFile(disk.files)
       IN disk' = [disk EXCEPT !.pc = "idle", !.last = "written",
                               !.files = IF f = "json" THEN @
                                         ELSE [@ EXCEPT !["json"] = disk.files[f], ![f] = Absent]]
    /\ UNCHANGED <<schedVars, playVars, keepVars, restVars, toolVars, sel, web, cyc>>

\* write_text or replace raises OSError: logged and re-raised
WriteRaises ==
    /\ disk.pc \in {"open", "write", "replace"}
    /\ disk' = [disk EXCEPT !.pc = "idle", !.last = "raised"]
    /\ UNCHANGED <<schedVars, playVars, keepVars, restVars, toolVars, sel, web, cyc>>

\* the process is killed inside write and started again
Crash ==
    /\ disk.pc \in {"open", "write", "replace"}
    /\ disk' = [disk EXCEPT !.pc = "idle", !.last = "crashed"]
    /\ UNCHANGED <<schedVars, playVars, keepVars, restVars, toolVars, sel, web, cyc>>

\* CacheStore.read(key)
ReadCall ==
    /\ disk.pc = "idle"
    /\ disk' = [disk EXCEPT !.got = ReadOf(disk.files)]
    /\ UNCHANGED <<schedVars, playVars, keepVars, restVars, toolVars, sel, web, cyc>>

NextDisk ==
    \/ \E payload \in Payloads : WriteCall(payload)
    \/ WriteOpen
    \/ WriteChunk
    \/ WriteReplace
    \/ WriteRaises
    \/ Crash
    \/ ReadCall


-----------------------------------------------------------------------------
(* The /test/schedule requests of the control panel, one thread each *)

\* the request threads of the web server that serve /test/schedule at once
Requests == {1, 2}

\* the seconds of the minute that pass in the model
MaxSecond == 1

\* a thread that serves no request
RequestIdle == [pc |-> "idle", run_at |-> 0, sec |-> 0]

\* no call of _schedule has ended
NoneDone == [kind |-> "none", run_at |-> 0, sec |-> 0, had |-> None]

\* no request yet, at second 0 of the minute; done is the call of _schedule
\* that ended last and the job it found under its id
WebIdle == [th |-> [t \in Requests |-> RequestIdle], sec |-> 0, done |-> NoneDone]

MinuteJob(runAt, sec) == TestJob(runAt) @@ [sec |-> 0]

\* the DateTrigger job of _schedule with the seconds of run_at
StampedJob(runAt, sec) == TestJob(runAt) @@ [sec |-> sec]

\* the job of the store with the id of run_at, if any
JobOfMinute(js, runAt) ==
    IF \E j \in js : j.id = TestJobId(runAt)
    THEN <<CHOOSE j \in js : j.id = TestJobId(runAt)>>
    ELSE None

\* schedule_test handling minutes=...: schedule_test_in_minutes up to the
\* call of _schedule; run_at keeps the seconds of now
InMinutesRequest(t, minutes) ==
    /\ web.th[t].pc = "idle"
    /\ web' = [web EXCEPT !.th[t] =
                  IF minutes <= 0 \/ ExceedsHorizon(minutes)
                  THEN RequestIdle
                  ELSE [RequestIdle EXCEPT !.pc = "check", !.run_at = now + minutes,
                                           !.sec = web.sec]]
    /\ UNCHANGED <<schedVars, playVars, keepVars, restVars, toolVars, sel, disk, cyc>>

\* schedule_test handling time=HH:MM: schedule_test_at_time up to the call of
\* _schedule; the candidate has second=0
AtTimeRequest(t, hhmm) ==
    /\ web.th[t].pc = "idle"
    /\ LET candidate == TodayOrTomorrow(Combine(DateOf(now), hhmm), now)
       IN web' = [web EXCEPT !.th[t] =
                     IF ~ValidHM(hhmm) \/ OutsideLimits(candidate, now)
                     THEN RequestIdle
                     ELSE [RequestIdle EXCEPT !.pc = "check", !.run_at = candidate]]
    /\ UNCHANGED <<schedVars, playVars, keepVars, restVars, toolVars, sel, disk, cyc>>

\* _schedule: self._ensure_capacity()
EnsureCapacity(t) ==
    /\ web.th[t].pc = "check"
    /\ LET me == web.th[t]
       IN web' = IF AtCapacity(Cardinality(PendingTests(jobs)))
                 THEN [web EXCEPT !.th[t] = RequestIdle,
                                  !.done = [kind |-> "rejected", run_at |-> me.run_at,
                                            sec |-> me.sec,
                                            had |-> JobOfMinute(jobs, me.run_at)]]
                 ELSE [web EXCEPT !.th[t].pc = "add"]
    /\ UNCHANGED <<schedVars, playVars, keepVars, restVars, toolVars, sel, disk, cyc>>

\* _schedule: self.scheduler.add_job(..., id=job_id, replace_existing=True)
AddTestJob(t) ==
    /\ web.th[t].pc = "add"
    /\ jobs' = AddJob(jobs, StampedJob(web.th[t].run_at, web.th[t].sec))
    /\ LET me == web.th[t]
       IN web' = [web EXCEPT !.th[t] = RequestIdle,
                             !.done = [kind |-> "added", run_at |-> me.run_at, sec |-> me.sec,
                                       had |-> JobOfMinute(jobs, me.run_at)]]
    /\ UNCHANGED <<now, cache, fired, lastOp, booted, playVars, keepVars, restVars,
                   toolVars, sel, disk, cyc>>

\* a second of the minute passes
SecondPasses ==
    /\ web.sec < MaxSecond
    /\ web' = [web EXCEPT !.sec = @ + 1]
    /\ UNCHANGED <<schedVars, playVars, keepVars, restVars, toolVars, sel, disk, cyc>>

NextWeb ==
    \/ \E t \in Requests, minutes \in TestMinutes : InMinutesRequest(t, minutes)
    \/ \E t \in Requests, hhmm \in TestHMs : AtTimeRequest(t, hhmm)
    \/ \E t \in Requests : EnsureCapacity(t)
    \/ \E t \in Requests : AddTestJob(t)
    \/ SecondPasses


CycIdle == [vol |-> 0]

InitMore ==
    /\ sel = SelIdle
    /\ disk = DiskIdle
    /\ web = WebIdle
    /\ cyc = CycIdle

\* none of the four is in use
InitTools ==
    /\ tests = TestsIdle
    /\ bt = BtIdle
    /\ probe = ProbeIdle
    /\ refresh = RefreshIdle
    /\ InitMore

-----------------------------------------------------------------------------
(* Actions of the scheduler *)

\* the record kept in lastOp
Op(kind, plan, q, t) == [op |-> kind, plan |-> plan, q |-> q, at |-> t, again |-> FALSE]

NoFired == [k \in {} |-> 0]

\* the handler is invoked once for <<date, event>>
Invoke(f, key) ==
    IF key \in DOMAIN f THEN [f EXCEPT ![key] = @ + 1]
    ELSE [k \in DOMAIN f \cup {key} |-> IF k = key THEN 1 ELSE f[k]]

DueJobs == {j \in jobs : j.run_at <= now}

\* the scheduler thread processes a due DateTrigger job: it leaves the store,
\* and its handler runs unless the misfire grace time has passed
FireJob(j) ==
    /\ j \in jobs
    /\ IsDayJob(j)
    /\ j.run_at <= now
    /\ jobs' = RemoveJob(jobs, j.id)
    /\ fired' = IF now - j.run_at <= MisfireGraceMinutes
                THEN Invoke(fired, <<j.date, j.event>>)
                ELSE fired
    /\ lastOp' = Op(IF now - j.run_at <= MisfireGraceMinutes THEN "fire" ELSE "missed",
                    NoPlan, {}, now)
    /\ UNCHANGED <<now, cache, booted, playVars, keepVars, restVars, toolVars, moreVars>>

\* no due job is left unprocessed for more than MaxLate minutes
MayAdvanceTo(t) == \A j \in DueJobs : t - j.run_at <= MaxLate

-----------------------------------------------------------------------------
(* JobScheduler driven directly, as its callers and tests drive it *)

\* the clock of this specification stops here
MaxClock == 3

\* the dates and the times mappings of the plans handed to schedule_day
TestDates == {0, 1}

TestTimes == {
    <<>>,
    ("fajr" :> <<0, 1>>),
    ("fajr" :> <<0, 2>>),
    ("dhuhr" :> <<0, 2>>) @@ ("fajr" :> <<0, 1>>) }

TestPlans == [date : TestDates, times : TestTimes]

QuranTimes == {<<0, 1>>, <<0, 3>>}

InitSched ==
    /\ InitPlay
    /\ InitTools
    /\ InitKeep
    /\ kaCycle = FALSE
    /\ api = ApiIdle
    /\ fetch = FetchIdle
    /\ btConnected
    /\ jobs = {}
    /\ fired = NoFired
    /\ lastOp = Op("init", NoPlan, {}, 0)
    /\ booted = "init"

InitDay ==
    /\ now = 0
    /\ InitSched
    /\ cache = EmptyCache

\* job_scheduler.schedule_day(plan, quran_times=q)
ScheduleDayCall(plan, q) ==
    /\ jobs' = ScheduleDay(jobs, plan, q, now)
    /\ lastOp' = [Op("schedule_day", plan, q, now) EXCEPT
                     !.again = (lastOp = [Op("schedule_day", plan, q, now) EXCEPT
                                            !.again = lastOp.again])]
    /\ UNCHANGED <<now, cache, fired, booted, playVars, keepVars, restVars, toolVars, moreVars>>

TickDay ==
    /\ now < MaxClock
    /\ MayAdvanceTo(now + 1)
    /\ now' = now + 1
    /\ lastOp' = Op("tick", NoPlan, {}, now + 1)
    /\ UNCHANGED <<jobs, cache, fired, booted, playVars, keepVars, restVars, toolVars, moreVars>>

NextDay ==
    \/ \E plan \in TestPlans, q \in SUBSET QuranTimes : ScheduleDayCall(plan, q)
    \/ \E j \in jobs : FireJob(j)
    \/ TickDay

SpecDay == InitDay /\ [][NextDay]_vars

-----------------------------------------------------------------------------
(* Properties of schedule_day *)

\* the jobs whose handler argument is the named event `name` of date `day`
EventJobs(day, name) == {j \in jobs : j.date = day /\ j.event = EventName(name)}

\* the jobs whose handler argument is quran@hhmm of date `day`
QuranJobs(day, hhmm) == {j \in jobs : j.date = day /\ j.event = QuranEventName(hhmm)}

UniqueIds == \A j1, j2 \in jobs : j1.id = j2.id => j1 = j2

\* the id text holds the 8 digits of `day` as one of its fields
IdEncodesDate(id, day) == \E i \in 1 .. Len(id) : id[i] = Digits(8, Ymd(day))

\* j is a job the call recorded in `op` added
AddedByCall(j, op) ==
    \/ \E name \in DOMAIN op.plan.times :
          /\ Combine(op.plan.date, op.plan.times[name]) > op.at
          /\ j = DayJob(JobId(name, op.plan.date),
                        Combine(op.plan.date, op.plan.times[name]),
                        EventName(name), op.plan.date, op.at)
    \/ \E hhmm \in op.q :
          /\ Combine(op.plan.date, hhmm) > op.at
          /\ j = DayJob(QuranJobId(op.plan.date, hhmm), Combine(op.plan.date, hhmm),
                        QuranEventName(hhmm), op.plan.date, op.at)

C1_AfterCall ==
    lastOp.op = "schedule_day" =>
        /\ \A name \in DOMAIN lastOp.plan.times :
              IF Combine(lastOp.plan.date, lastOp.plan.times[name]) > lastOp.at
              THEN Cardinality(EventJobs(lastOp.plan.date, name)) = 1
              ELSE EventJobs(lastOp.plan.date, name) = {}
        /\ \A name \in AllNames \ DOMAIN lastOp.plan.times :
              EventJobs(lastOp.plan.date, name) = {}
        /\ \A hhmm \in lastOp.q :
              Combine(lastOp.plan.date, hhmm) > lastOp.at
                  => Cardinality(QuranJobs(lastOp.plan.date, hhmm)) = 1

C1_Repeat == lastOp'.op = "schedule_day" /\ lastOp'.again => jobs' = jobs

\* C1: schedule_day(P, quran_times=Q) repeated at a fixed clock leaves the job
\* set of the first call unchanged; after each call there is exactly one job
\* for every named event of P still in the future and none for the others,
\* one job for every future time of Q, and no two jobs share an id.
C1_Idempotent == [](C1_AfterCall /\ UniqueIds) /\ [][C1_Repeat]_vars

C1_Witness ==
    /\ lastOp.op = "schedule_day"
    /\ lastOp.again
    /\ \E name \in DOMAIN lastOp.plan.times : EventJobs(lastOp.plan.date, name) # {}
    /\ \E hhmm \in lastOp.q : QuranJobs(lastOp.plan.date, hhmm) # {}

\* C2: no pending day job was added at a clock that had already reached its
\* run time (run time <= now at the add), named events and Quran events alike.
C2_NoPastJobs == \A j \in jobs : IsDayJob(j) => ~j.late

C2_Witness ==
    /\ lastOp.op = "schedule_day"
    /\ \E name \in DOMAIN lastOp.plan.times :
          /\ Combine(lastOp.plan.date, lastOp.plan.times[name]) = lastOp.at
          /\ EventJobs(lastOp.plan.date, name) = {}
    /\ \E hhmm \in lastOp.q :
          /\ Combine(lastOp.plan.date, hhmm) = lastOp.at
          /\ QuranJobs(lastOp.plan.date, hhmm) = {}

\* C3: after schedule_day(plan, quran_times) for date D every job whose id
\* encodes D was added by this call.
C3_OnlyThisCall ==
    lastOp.op = "schedule_day" =>
        \A j \in jobs : IdEncodesDate(j.id, lastOp.plan.date) => AddedByCall(j, lastOp)

-----------------------------------------------------------------------------
(* The application: main() schedules from the cache, installs the daily    *)
(* refresh, refreshes once, and then the scheduler thread runs the jobs    *)

\* the clock of this specification stops at the end of day MaxDay
Horizon == (MaxDay + 1) * MinutesPerDay - 1

\* the minute of day 0 at which the process starts
StartTimes == {0, 4}

\* the cache a start finds: empty, or left by an earlier complete prefetch
InitCaches == {EmptyCache, Prefetch(EmptyCache, 0, Window(0), {})}

InitApp ==
    /\ now \in StartTimes
    /\ InitSched
    /\ cache \in InitCaches

\* refresh(): prefetch, then schedule_day for today and tomorrow
RefreshJobs(js, c, t) == RescheduleTodayTomorrow(js, c, t)

\* main(): schedule_from_cache(cache_store, job_scheduler)
BootFromCache ==
    /\ booted = "init"
    /\ jobs' = ScheduleCached(jobs, cache, now, 0)
    /\ booted' = "cached"
    /\ lastOp' = Op("schedule_from_cache", NoPlan, {}, now)
    /\ UNCHANGED <<now, cache, fired, playVars, keepVars, restVars, toolVars, moreVars>>

\* schedule_refresh: install the refresh_daily job
BootRefreshJob ==
    /\ booted = "cached"
    /\ jobs' = ScheduleRefreshJob(jobs, now)
    /\ booted' = "installed"
    /\ lastOp' = Op("schedule_refresh_job", NoPlan, {}, now)
    /\ UNCHANGED <<now, cache, fired, playVars, keepVars, restVars, toolVars, moreVars>>

\* schedule_refresh: the first refresh(), then scheduler.start()
BootRefresh(rangeGot, dateGot) ==
    /\ booted = "installed"
    /\ cache' = Prefetch(cache, now, rangeGot, dateGot)
    /\ jobs' = RefreshJobs(jobs, cache', now)
    /\ booted' = "running"
    /\ lastOp' = Op("refresh", NoPlan, {}, now)
    /\ UNCHANGED <<now, fired, playVars, keepVars, restVars, toolVars, moreVars>>

\* the scheduler thread processes the due refresh_daily job
FireRefresh(j, rangeGot, dateGot) ==
    /\ booted = "running"
    /\ j \in jobs
    /\ j.id = RefreshJobId
    /\ j.run_at <= now
    /\ LET next == [j EXCEPT !.run_at = NextRefresh(now), !.date = DateOf(NextRefresh(now))]
       IN IF now - j.run_at <= MisfireGraceMinutes
          THEN /\ cache' = Prefetch(cache, now, rangeGot, dateGot)
               /\ jobs' = RefreshJobs(AddJob(jobs, next), cache', now)
               /\ lastOp' = Op("refresh", NoPlan, {}, now)
          ELSE /\ cache' = cache
               /\ jobs' = AddJob(jobs, next)
               /\ lastOp' = Op("missed", NoPlan, {}, now)
    /\ UNCHANGED <<now, fired, booted, playVars, keepVars, restVars, toolVars, moreVars>>

FireDayJob(j) ==
    /\ booted = "running"
    /\ FireJob(j)

\* time passes to the next minute while a due job waits, and else to the run
\* time of the next job
TickApp ==
    /\ booted = "running"
    /\ LET next == IF DueJobs # {} THEN now + 1
                   ELSE CHOOSE t \in {j.run_at : j \in jobs} :
                            \A j \in jobs : t <= j.run_at
       IN /\ next <= Horizon
          /\ MayAdvanceTo(next)
          /\ now' = next
          /\ lastOp' = Op("tick", NoPlan, {}, next)
    /\ UNCHANGED <<jobs, cache, fired, booted, playVars, keepVars, restVars, toolVars, moreVars>>

\* what the API calls of one prefetch return
RangeOutcomes(t) == {{}, Window(t)}

DateOutcomes(t) == SUBSET Window(t)

NextApp ==
    \/ BootFromCache
    \/ BootRefreshJob
    \/ \E r \in RangeOutcomes(now), d \in DateOutcomes(now) : BootRefresh(r, d)
    \/ \E j \in jobs, r \in RangeOutcomes(now), d \in DateOutcomes(now) : FireRefresh(j, r, d)
    \/ \E j \in jobs : FireDayJob(j)
    \/ TickApp

SpecApp == InitApp /\ [][NextApp]_vars

-----------------------------------------------------------------------------
(* Properties of startup and of the daily refresh *)

\* j is a pending job for an event of today or tomorrow still in the future
FutureNearJob(j) ==
    /\ IsDayJob(j)
    /\ j.run_at > now
    /\ j.date \in {DateOf(now), DateOf(now) + 1}

C9_KeepsPending ==
    lastOp'.op = "refresh" =>
        \A j \in jobs : FutureNearJob(j) => \E k \in jobs' : k.id = j.id

C9_CachedScheduled ==
    lastOp.op = "refresh" /\ cache[DateOf(now)] # NoPlan =>
        \A name \in DOMAIN cache[DateOf(now)].times :
            Combine(DateOf(now), cache[DateOf(now)].times[name]) > now
                => \E j \in jobs : j.id = JobId(name, DateOf(now))

\* C9: no event is lost by a refresh: a job pending for a still-future event
\* of today or tomorrow is still pending (same id) after the refresh, and
\* every still-future event of today's cached plan has a pending job after it.
C9_NoEventLost == []C9_CachedScheduled /\ [][C9_KeepsPending]_vars

\* C10: the handler is invoked at most once for each calendar date and event
\* name.
C10_AtMostOnce == \A key \in DOMAIN fired : fired[key] <= 1

-----------------------------------------------------------------------------
(* The playback specification: main() has built the objects and, when the  *)
(* keepalive is enabled, resume_if_idle() has spawned its process           *)

InitPlayback ==
    /\ InitPlay
    /\ InitTools
    /\ kaProcess \in {"none", "live"}
    /\ kaOrphans = 0
    /\ kaThread = 0
    /\ kaStop = FALSE
    /\ mods = [m \in Mods |-> NoMod]
    /\ caller = IF kaProcess = "live"
                THEN [CallerIdle EXCEPT !.last = "resume", !.sawBt = "true", !.spawned = TRUE]
                ELSE CallerIdle
    /\ kaCycle = FALSE
    /\ api = ApiIdle
    /\ fetch = FetchIdle
    /\ now = 0
    /\ jobs = {}
    /\ cache = EmptyCache
    /\ fired = NoFired
    /\ lastOp = Op("init", NoPlan, {}, 0)
    /\ booted = "init"

SpecPlay == InitPlayback /\ [][NextPlay]_vars

-----------------------------------------------------------------------------
(* Properties of playback *)

\* the positions of play between the acquire and the release of the lock
Holding == {"play_volume", "play_which", "play_running"}

\* the positions after play has returned to its call site
Returned == {"tone_done", "done"}

C4_BusyStep ==
    \A t \in Threads :
        (th[t].pc = "play_acquire" /\ lock # 0 /\ th'[t] # th[t]) =>
            /\ th'[t].pc \in Returned
            /\ th'[t].exit = "busy"
            /\ th'[t].ret # "true"
            /\ th'[t].vol = 0 /\ th'[t].runs = 0 /\ ~th'[t].took
            /\ lock' = lock

C4_BusyQuiet ==
    \A t \in Threads :
        th[t].exit = "busy" => th[t].vol = 0 /\ th[t].runs = 0 /\ ~th[t].took

\* C4: while one play call holds the lock, the next step of any other play
\* call at the acquire is its return with False, the lock untouched, and that
\* call has set no volume and run no player command
C4_SingleFlight == []C4_BusyQuiet /\ [][C4_BusyStep]_vars

C4_Witness ==
    \E t \in Threads, u \in Threads :
        /\ lock = u /\ t # u /\ th[u].pc \in Holding
        /\ th[t].exit = "busy" /\ th[t].pc \in Returned

\* C5: at most one thread is inside runner.run(command) of play, whichever
\* call sites (event playback, connected tone) the threads came from
C5_OnePlayer == Cardinality({t \in Threads : th[t].pc = "play_running"}) <= 1

C5_Witness ==
    \E t \in Threads, u \in Threads :
        /\ th[t].pc = "play_running" /\ th[t].ctx = "tone"
        /\ th[u].pc = "play_acquire" /\ th[u].ctx = "event"

\* C6: the lock is held only by a thread between acquire and release of its
\* own play call, so a play call that took it has released it once returned
\* and the lock is free when no play is in progress; a play of a missing file
\* never took it
C6_SlotReleased ==
    /\ lock # 0 => th[lock].pc \in Holding /\ th[lock].took
    /\ \A t \in Threads : th[t].pc \in Holding => lock = t
    /\ \A t \in Threads : th[t].pc \in Returned /\ th[t].took => lock # t
    /\ (\A t \in Threads : th[t].pc \notin Holding) => lock = 0
    /\ \A t \in Threads : th[t].exit = "missing" => ~th[t].took /\ th[t].ret # "true"

C6_Witness ==
    \E t \in Threads, u \in Threads :
        /\ th[t].took /\ th[t].exit = "exception" /\ th[t].runs = 1
        /\ th[u].took /\ th[u].exit = "noplayer"
        /\ lock = 0

\* C7: handle_event ends with True or False, never with an exception, and
\* with False whenever something raised or the play did not succeed
C7_ReturnsBoolean ==
    \A t \in Threads :
        th[t].pc = "done" =>
            /\ th[t].ret \in {"true", "false"}
            /\ th[t].raised => th[t].ret = "false"
            /\ th[t].ret = "true" => th[t].ctx = "event" /\ th[t].exit = "ok"

C7_Witness ==
    \E t \in Threads, u \in Threads :
        /\ th[t].pc = "done" /\ th[t].raised /\ th[t].policy = 1 /\ th[t].ret = "false"
        /\ th[u].pc = "done" /\ th[u].raised /\ th[u].exit = "escaped"
        /\ th[u].ret = "false"

\* C8: the handler's play call, and any play of the invocation, happens only
\* after this invocation's ensure_connected_once saw the link up and (for the
\* handler's call) returned True; when it returned False the handler is done
\* with False after its one connection check, without timeout policy or play
C8_Gated ==
    \A t \in Threads :
        /\ th[t].ctx = "event" =>
               th[t].ensured = 1 /\ th[t].ensureRet = "true" /\ th[t].sawYes
        /\ th[t].plays > 0 \/ th[t].policy > 0 => th[t].sawYes
        /\ th[t].ensureRet = "true" => th[t].sawYes
        /\ th[t].ensureRet = "false" =>
               /\ th[t].pc = "done" /\ th[t].ret = "false"
               /\ th[t].ensured = 1 /\ th[t].policy = 0 /\ th[t].plays = 0

C8_Witness ==
    \E t \in Threads, u \in Threads :
        /\ th[t].pc = "done" /\ th[t].ensureRet = "false"
        /\ th[u].pc = "play_running" /\ th[u].ctx = "event"

-----------------------------------------------------------------------------
(* The keepalive specification *)

InitKeepalive ==
    /\ InitKeep
    /\ InitTools
    /\ kaCycle \in BOOLEAN
    /\ InitPlay /\ btConnected
    /\ now = 0
    /\ jobs = {}
    /\ cache = EmptyCache
    /\ fired = NoFired
    /\ lastOp = Op("init", NoPlan, {}, 0)
    /\ booted = "init"
    /\ api = ApiIdle
    /\ fetch = FetchIdle

NextKeep ==
    \/ CallPause
    \/ PauseCheck
    \/ PauseStopMod
    \/ PauseJoin
    \/ PauseTerminate
    \/ PauseClear
    \/ CallResume
    \/ ResumeCheck
    \/ \E connected \in BOOLEAN : ResumeBt(connected)
    \/ \E canStart \in BOOLEAN : ResumeSpawn(canStart)
    \/ ResumeStartMod
    \/ \E m \in Mods : ModWake(m)
    \/ \E m \in Mods, command \in BOOLEAN : ModCheckRunning(m, command)
    \/ \E m \in Mods : ModTerminate(m)
    \/ \E m \in Mods : ModClear(m)
    \/ \E m \in Mods : ModSpawn(m)
    \/ ProcessExits

SpecKeep == InitKeepalive /\ [][NextKeep]_vars

-----------------------------------------------------------------------------
(* Properties of the keepalive *)

\* C11: no keepalive process is running while a thread is inside the player
\* subprocess of AudioPlayer.play (the play has paused the keepalive through
\* on_foreground_start before it started the player).
C11_KeepalivePaused == \A t \in Threads : th[t].pc = "play_running" => ~IsRunning

C12_PausedAfterStart == caller.pc = "idle" /\ caller.last = "pause" => ~IsRunning

C12_SpawnChecked == caller.spawned => caller.sawBt = "true"

C12_SpawnAlone == caller.spawned => ~caller.overlap

\* C12: between the return of on_foreground_start() and the next call
\* is_running() is false; resume_if_idle spawns only after
\* ensure_connected_once() returned true, and only when no keepalive process
\* is running.
C12_KeepaliveContract == C12_PausedAfterStart /\ C12_SpawnChecked /\ C12_SpawnAlone

C12_NoCycle == ~kaCycle => C12_KeepaliveContract

-----------------------------------------------------------------------------
(* The API client specification *)

InitApi ==
    /\ InitSched
    /\ now = 0
    /\ cache = EmptyCache

SpecApi == InitApi /\ [][NextApi]_vars

\* the sleeps of a call whose sleep before retry k is base * 2^k
BackoffSleeps(n) == [k \in 1 .. n |-> api.base * (2 ^ (k - 1))]

Transport == [kind |-> "transport", status |-> 0, body |-> "none"]

Ok200 == [kind |-> "response", status |-> 200, body |-> "object"]

C13_Attempts == api.calls <= api.maxRetries + 1

C13_Case ==
    api.maxRetries = 2 /\ api.outcomes = <<Transport, Transport, Ok200>> =>
        api.calls = 3 /\ api.pc = "returned"

\* C13 as stated: at most max_retries+1 attempts; one sleep between any two
\* consecutive attempts and none after the last, the sleep before retry k
\* being backoff_base * 2^k.
C13_RetryBackoff ==
    /\ C13_Attempts
    /\ C13_Case
    /\ api.sleeps = BackoffSleeps(IF api.pc = "get" THEN api.calls
                                  ELSE IF api.calls = 0 THEN 0 ELSE api.calls - 1)

\* C13 amended: the same with a positive backoff base; with a base of 0 (or
\* below, clamped to 0) the client never sleeps.
C13_RetryBackoffPositive ==
    /\ C13_Attempts
    /\ C13_Case
    /\ api.base > 0 =>
          api.sleeps = BackoffSleeps(IF api.pc = "get" THEN api.calls
                                     ELSE IF api.calls = 0 THEN 0 ELSE api.calls - 1)
    /\ api.base = 0 => api.sleeps = <<>>

C13_Witness ==
    /\ api.maxRetries = 2 /\ api.base = 1
    /\ api.outcomes = <<Transport, Transport, Ok200>>
    /\ api.sleeps = <<1, 2>>
    /\ api.pc = "returned"

IsClientError(o) == o.kind = "response" /\ o.status >= 400 /\ o.status < 500

IsRetryable(o) == o.kind = "transport" \/ (o.kind = "response" /\ o.status >= 500)

\* C14: an attempt answered with a 4xx status is the last one and the call
\* raises ApiError (first attempt: one attempt, no sleep); only a transport
\* failure or a 5xx status is followed by another attempt; a call that fails
\* raises ApiError.
C14_ClientErrorFinal ==
    /\ \A i \in 1 .. Len(api.outcomes) :
          /\ IsClientError(api.outcomes[i]) =>
                /\ i = Len(api.outcomes) /\ api.pc = "raised" /\ api.error = "ApiError"
                /\ i = 1 => api.calls = 1 /\ api.sleeps = <<>>
          /\ i < Len(api.outcomes) \/ api.pc = "get" => IsRetryable(api.outcomes[i])
    /\ api.pc = "raised" <=> api.error = "ApiError"
    /\ api.pc = "returned" => api.outcomes[Len(api.outcomes)] = Ok200

C14_Witness ==
    /\ api.maxRetries = 2
    /\ Len(api.outcomes) = 1 /\ api.outcomes[1].status = 400
    /\ api.pc = "raised" /\ api.calls = 1 /\ api.sleeps = <<>>

-----------------------------------------------------------------------------
(* The prefetch specification and the derivation specification *)

InitFetch ==
    /\ InitSched
    /\ now = 0
    /\ cache \in InitCaches

SpecFetch == InitFetch /\ [][NextFetch]_vars

InitDerive ==
    /\ InitPlay /\ btConnected /\ InitKeep /\ kaCycle = FALSE
    /\ now = 0 /\ jobs = {} /\ fired = NoFired /\ booted = "init"
    /\ lastOp = Op("init", NoPlan, {}, 0)
    /\ cache = EmptyCache
    /\ api = ApiIdle
    /\ InitTools
    /\ \E plan \in DerivePlans, next \in DeriveNexts :
          fetch = [FetchIdle EXCEPT !.pc = "derive", !.plan = plan, !.next = next,
                                   !.given = plan]

SpecDerive == InitDerive /\ [][DeriveApply]_vars

-----------------------------------------------------------------------------
(* Properties of prefetch *)

\* the queries of one kind that the prefetch has made
QueriesOf(kind) == {i \in 1 .. Len(fetch.queries) : fetch.queries[i].kind = kind}

\* the date queries are exactly those of the days dates, in order
DatesInOrder ==
    /\ Len(fetch.queries) = fetch.days + 1
    /\ \A i \in 1 .. fetch.days :
          /\ fetch.queries[i + 1].kind = "date"
          /\ fetch.queries[i + 1].from = fetch.start + i - 1

AllFailed ==
    /\ fetch.rangeFailed
    /\ Len(fetch.queries) = fetch.days + 1
    /\ \A i \in 1 .. Len(fetch.queries) : ~fetch.queries[i].ok

\* C16: when the range query and every per-date query fail, the prefetch
\* writes nothing: the cache is what it was before the call, and get_day
\* answers for every date what it answered before.
C16_FailureKeepsCache ==
    (fetch.pc = "done" /\ AllFailed) =>
        /\ cache = fetch.before
        /\ \A d \in CacheDays : GetDay(cache, d) = GetDay(fetch.before, d)

\* everything failed over a cache that held plans
C16_Witness ==
    /\ fetch.pc = "done"
    /\ AllFailed
    /\ fetch.days = PrefetchDays
    /\ \E d \in CacheDays : GetDay(cache, d) # NoPlan

-----------------------------------------------------------------------------
(* Properties of the derivation *)

\* the minute, counted from 00:00 of date 0, that a wall-clock time of a date names
Instant(day, hhmm) == day * 24 * 60 + hhmm[1] * 60 + hhmm[2]

\* hhmm is the wall-clock minute that holds the instant num/den (in minutes
\* from 00:00 of date 0), whatever the date of that instant
IsWallClockOf(hhmm, num, den) ==
    /\ hhmm[1] \in 0 .. 23
    /\ hhmm[2] \in 0 .. 59
    /\ \E k \in -1 .. (DeriveDay + 3) :
          LET T == Instant(k, hhmm)
          IN T * den <= num /\ num < (T + 1) * den

\* fajr(next) - maghrib(plan), in minutes
NightOf(plan, next) ==
    Instant(next.date, next.times["fajr"]) - Instant(plan.date, plan.times["maghrib"])

\* plan and next both carry what the night is measured from
HasNight(plan, next) ==
    /\ next # NoPlan
    /\ Has(plan.times, "maghrib")
    /\ Has(next.times, "fajr")

\* C17: for a plan of date N derived with the plan of date N+1, maghrib(N)
\* and fajr(N+1) present (so night > 0), an absent midnight becomes the
\* wall-clock minute of maghrib(N) + night/2 and an absent tahajjud that of
\* fajr(N+1) - night/3; maghrib 18:00 and next fajr 05:00 give 23:30 and
\* 01:20; and when the night of the pair is not positive, neither field
\* is added.
C17_NightDerivation ==
    (fetch.pc = "derived" /\ HasNight(fetch.plan, fetch.next)) =>
        LET plan == fetch.plan
            next == fetch.next
            out == fetch.out.times
            night == NightOf(plan, next)
            maghrib == Instant(plan.date, plan.times["maghrib"])
            fajr == Instant(next.date, next.times["fajr"])
        IN /\ (next.date = plan.date + 1 /\ ~Has(plan.times, "midnight")) =>
                 /\ night > 0
                 /\ Has(out, "midnight")
                 /\ IsWallClockOf(out["midnight"], 2 * maghrib + night, 2)
           /\ (next.date = plan.date + 1 /\ ~Has(plan.times, "tahajjud")) =>
                 /\ Has(out, "tahajjud")
                 /\ IsWallClockOf(out["tahajjud"], 3 * fajr - night, 3)
           /\ ( /\ next.date = plan.date + 1
                /\ plan.times = ("fajr" :> <<5, 0>>) @@ ("maghrib" :> <<18, 0>>)
                /\ next.times["fajr"] = <<5, 0>> ) =>
                 /\ out["midnight"] = <<23, 30>>
                 /\ out["tahajjud"] = <<1, 20>>
           /\ night <= 0 =>
                 /\ Has(out, "midnight") <=> Has(plan.times, "midnight")
                 /\ Has(out, "tahajjud") <=> Has(plan.times, "tahajjud")

\* a night of 11 h 01 min, whose half and whose third are not whole minutes
C17_Witness ==
    /\ fetch.pc = "derived"
    /\ HasNight(fetch.plan, fetch.next)
    /\ fetch.next.date = fetch.plan.date + 1
    /\ fetch.plan.times = ("fajr" :> <<5, 0>>) @@ ("maghrib" :> <<18, 0>>)
    /\ fetch.next.times["fajr"] = <<5, 1>>
    /\ fetch.out.times["midnight"] = <<23, 30>>
    /\ fetch.out.times["tahajjud"] = <<1, 20>>

\* the dates of the plans fetched by the prefetch
BatchDates == {fetch.plans[k].date : k \in 1 .. Len(fetch.plans)}

\* the plan of a date in the batch
BatchPlan(d) == fetch.plans[CHOOSE k \in 1 .. Len(fetch.plans) : fetch.plans[k].date = d]

\* C18: after a prefetch, the cached plan of each fetched date N has a
\* midnight and a tahajjud that the API did not supply only if the batch
\* holds a plan for date N+1, and then they are the values derived from the
\* fajr of that plan; when the batch holds no plan for N+1 both fields are
\* as absent as the API left them.
C18_OnlyFromNextDate ==
    fetch.pc = "done" =>
        \A d \in BatchDates :
            LET plan == BatchPlan(d)
                out == GetDay(cache, d).times
            IN IF (d + 1) \in BatchDates
               THEN \A name \in {"midnight", "tahajjud"} :
                       (~Has(plan.times, name) /\ HasNight(plan, BatchPlan(d + 1))) =>
                           /\ Has(out, name)
                           /\ out[name] = DeriveExtras(plan, BatchPlan(d + 1)).times[name]
               ELSE \A name \in {"midnight", "tahajjud"} :
                       Has(out, name) <=> Has(plan.times, name)

\* the fetched plan of date d has a maghrib and no sunset
NeedsSunset(d) == Has(BatchPlan(d).times, "maghrib") /\ ~Has(BatchPlan(d).times, "sunset")

\* C19 as claimed: after a prefetch, every fetched plan with a maghrib and no
\* sunset, the last one included, is cached with a sunset that is, on the
\* plan's own date, the instant 20 minutes before its maghrib.
C19_SunsetSameDay ==
    fetch.pc = "done" =>
        \A d \in BatchDates :
            NeedsSunset(d) =>
                /\ Has(GetDay(cache, d).times, "sunset")
                /\ Instant(d, GetDay(cache, d).times["sunset"])
                   = Instant(d, BatchPlan(d).times["maghrib"]) - 20

\* C19: after a prefetch, every fetched plan with a maghrib and no sunset,
\* the last one included, is cached with a sunset that is the wall-clock
\* time of the instant 20 minutes before its maghrib: on the plan's date
\* when maghrib is 00:20 or later, and a time from 23:40 on, the date
\* dropped, when maghrib is earlier than 00:20.
C19_SunsetWallClock ==
    fetch.pc = "done" =>
        \A d \in BatchDates :
            NeedsSunset(d) =>
                LET maghrib == BatchPlan(d).times["maghrib"]
                    sunset == GetDay(cache, d).times["sunset"]
                IN /\ Has(GetDay(cache, d).times, "sunset")
                   /\ IsWallClockOf(sunset, Instant(d, maghrib) - 20, 1)
                   /\ IF Instant(0, maghrib) >= 20
                      THEN Instant(d, sunset) = Instant(d, maghrib) - 20
                      ELSE Instant(d, sunset) = Instant(d + 1, maghrib) - 20

\* the last plan of a batch of several gets 17:40 from 18:00, and a plan
\* with maghrib 00:10 gets 23:50
C19_Witness ==
    /\ fetch.pc = "done"
    /\ Len(fetch.plans) = PrefetchDays
    /\ LET last == fetch.plans[Len(fetch.plans)]
       IN /\ last.times = ("fajr" :> <<5, 0>>) @@ ("maghrib" :> <<18, 0>>)
          /\ GetDay(cache, last.date).times["sunset"] = <<17, 40>>
          /\ \A name \in {"midnight", "tahajjud"} : ~Has(GetDay(cache, last.date).times, name)
    /\ \E d \in BatchDates :
          /\ BatchPlan(d).times = ("fajr" :> <<5, 0>>) @@ ("maghrib" :> <<0, 10>>)
          /\ GetDay(cache, d).times["sunset"] = <<23, 50>>

\* the names _derive_extras may add
DerivedNames == {"sunset", "midnight", "tahajjud"}

\* C20: the plan that _derive_extras returns has the date of the plan it
\* was given and every time of it with the same value (sunset, midnight and
\* tahajjud supplied by the API included); the only names it adds are
\* sunset, midnight and tahajjud; and the caller's plan is after the call
\* what it was before.
C20_InputKept ==
    fetch.pc = "derived" =>
        /\ fetch.out.date = fetch.given.date
        /\ \A name \in DOMAIN fetch.given.times :
              /\ Has(fetch.out.times, name)
              /\ fetch.out.times[name] = fetch.given.times[name]
        /\ (DOMAIN fetch.out.times) \ (DOMAIN fetch.given.times) \subseteq DerivedNames
        /\ fetch.plan = fetch.given

\* the API supplied sunset 17:45 and midnight 23:00; tahajjud is derived beside them
C20_Witness ==
    /\ fetch.pc = "derived"
    /\ HasNight(fetch.plan, fetch.next)
    /\ fetch.next.date = fetch.plan.date + 1
    /\ fetch.plan.times["maghrib"] = <<18, 0>>
    /\ Has(fetch.plan.times, "sunset")
    /\ fetch.plan.times["sunset"] = <<17, 45>>
    /\ fetch.plan.times["midnight"] = <<23, 0>>
    /\ ~Has(fetch.plan.times, "tahajjud")
    /\ fetch.out.times["sunset"] = <<17, 45>>
    /\ fetch.out.times["midnight"] = <<23, 0>>
    /\ Has(fetch.out.times, "tahajjud")

-----------------------------------------------------------------------------
(* The test-scheduler specification and its properties *)

\* the store already holds the daily refresh job and an event job of tomorrow
InitTests ==
    /\ InitPlay /\ btConnected /\ InitKeep /\ kaCycle = FALSE
    /\ InitTools
    /\ api = ApiIdle
    /\ fetch = FetchIdle
    /\ now = TestStart
    /\ jobs = ScheduleRefreshJob({DayJob(JobId("fajr", 1), Combine(1, <<6, 6>>),
                                         EventName("fajr"), 1, TestStart)}, TestStart)
    /\ cache = EmptyCache
    /\ fired = NoFired
    /\ lastOp = Op("init", NoPlan, {}, 0)
    /\ booted = "running"

SpecTests == InitTests /\ [][NextTests]_vars

\* the pending jobs whose id text begins with test_audio
TestJobsOf(js) == {j \in js : j.id[1] = <<"w", "test_audio">>}

\* the last call was one of the two schedule calls
WasSchedule == tests.op \in {"at_time", "in_minutes"}

\* C21: the pending jobs with the test prefix are never more than
\* max_pending_tests, and a schedule call made with that many pending raises
\* and leaves the job store as it was.
C21_Capacity ==
    /\ Cardinality(TestJobsOf(jobs)) <= MaxPendingTests
    /\ (WasSchedule /\ Cardinality(TestJobsOf(tests.before)) = MaxPendingTests) =>
          /\ tests.raised
          /\ jobs = tests.before

\* a schedule call within the horizon is refused because the store is full
C21_Witness ==
    /\ tests.op = "in_minutes"
    /\ tests.arg = <<1>>
    /\ tests.raised
    /\ Cardinality(TestJobsOf(jobs)) = MaxPendingTests
    /\ jobs = tests.before

\* the job a call has just added
Accepted(j) == WasSchedule /\ ~tests.raised /\ j \in jobs /\ j.id = tests.ret

\* the first minute after t whose wall-clock time is hhmm
FirstAfter(hhmm, t) ==
    CHOOSE r \in (t + 1) .. (t + 24 * 60) : r % (24 * 60) = hhmm[1] * 60 + hhmm[2]

\* C22: an accepted schedule call has added a job that runs strictly after
\* now and at most max_minutes_ahead minutes after it, and a refused call has
\* added nothing.  schedule_test_in_minutes(n) refuses n <= 0 and
\* n > max_minutes_ahead, and accepts n = max_minutes_ahead (room permitting)
\* with a job at now + n.  schedule_test_at_time(HH:MM) aims at that time
\* today, or tomorrow when it is not after now, refuses it beyond the horizon
\* and else (room permitting) accepts it.
C22_WithinHorizon ==
    WasSchedule =>
        LET room == Cardinality(TestJobsOf(tests.before)) < MaxPendingTests
        IN /\ ~tests.raised =>
                 \E j \in jobs :
                    /\ Accepted(j)
                    /\ j.run_at > tests.at
                    /\ j.run_at <= tests.at + MaxMinutesAhead
           /\ tests.raised => jobs = tests.before
           /\ tests.op = "in_minutes" =>
                 LET n == tests.arg[1]
                 IN /\ (n <= 0 \/ n > MaxMinutesAhead) => tests.raised
                    /\ (n = MaxMinutesAhead /\ room) => ~tests.raised
                    /\ \A j \in jobs : Accepted(j) => j.run_at = tests.at + n
           /\ (tests.op = "at_time" /\ tests.arg[1] \in 0 .. 23 /\ tests.arg[2] \in 0 .. 59) =>
                 LET aim == FirstAfter(tests.arg, tests.at)
                 IN /\ aim - tests.at > MaxMinutesAhead => tests.raised
                    /\ (aim - tests.at <= MaxMinutesAhead /\ room) => ~tests.raised
                    /\ \A j \in jobs : Accepted(j) => j.run_at = aim

\* 00:01 asked at 23:59 has passed today and is a job of tomorrow
C22_Witness ==
    /\ tests.op = "at_time"
    /\ ~tests.raised
    /\ tests.arg = <<0, 1>>
    /\ tests.at = TestStart + 1
    /\ \E j \in jobs : Accepted(j) /\ j.date = 1 /\ j.run_at = tests.at + 2

\* what cancel_test_job answers and leaves, from the store it found
C23_Answer ==
    tests.op = "cancel" =>
        IF \E j \in tests.before : j.id = tests.arg
        THEN /\ tests.ret = <<TRUE>>
             /\ jobs = {j \in tests.before : j.id # tests.arg}
             /\ jobs # tests.before
        ELSE /\ tests.ret = <<FALSE>>
             /\ jobs = tests.before

\* a cancel that follows a cancel of the same id answers false
C23_Second ==
    (tests.op = "cancel" /\ tests'.op = "cancel" /\ tests'.arg = tests.arg) =>
        tests'.ret = <<FALSE>>

\* C23: cancel_test_job(id) answers true and removes the job when a job of
\* that id is pending, answers false and changes nothing when none is, and
\* answers false when it follows a cancel of the same id.
C23_Cancel == []C23_Answer /\ [][C23_Second]_vars

\* a pending test job has just been cancelled
C23_Witness ==
    /\ tests.op = "cancel"
    /\ tests.ret = <<TRUE>>
    /\ tests.arg[1] = <<"w", "test_audio">>
    /\ Cardinality(TestJobsOf(tests.before)) = Cardinality(TestJobsOf(jobs)) + 1

-----------------------------------------------------------------------------
(* The Bluetooth specification and its properties *)

InitBt ==
    /\ InitSched
    /\ now = 0
    /\ cache = EmptyCache

SpecBt == InitBt /\ [][NextBt]_vars

\* the events of one kind in the trace of the call, in order
RECURSIVE EventsOf(_, _)
EventsOf(trace, kind) ==
    IF trace = <<>> THEN <<>>
    ELSE IF Head(trace)[1] = kind THEN <<Head(trace)>> \o EventsOf(Tail(trace), kind)
    ELSE EventsOf(Tail(trace), kind)

\* the delays slept, in order
SleptDelays == [i \in 1 .. Len(EventsOf(bt.trace, "sleep")) |-> EventsOf(bt.trace, "sleep")[i][2]]

\* the i-th event of the trace is a connect attempt that left the device
\* connected: the command exited with 0 and the status query after it said yes
LeftConnected(i) ==
    /\ i + 1 <= Len(bt.trace)
    /\ bt.trace[i] = <<"connect", "ok">>
    /\ bt.trace[i + 1] = <<"info", "yes">>

\* ensure_connected has ended, the device was found disconnected and no
\* connect attempt left it connected
EveryAttemptFailed ==
    /\ bt.pc = "done"
    /\ bt.mode = "full"
    /\ bt.trace[1] = <<"info", "no">>
    /\ \A i \in 1 .. Len(bt.trace) : ~LeftConnected(i)

\* C24: ensure_connected on a disconnected device whose every connect
\* attempt fails has made one attempt per element of the backoff list, has
\* slept exactly the delays of the list in list order, and has returned false
\* and not raised; and a call that has ended after an attempt that left the
\* device connected has made no attempt and no sleep after it.
C24_BackoffThenFalse ==
    /\ EveryAttemptFailed =>
          /\ bt.result = "false"
          /\ Len(EventsOf(bt.trace, "connect")) = Len(bt.backoff)
          /\ SleptDelays = bt.backoff
    /\ (bt.pc = "done" /\ bt.mode = "full") =>
          \A i \in 1 .. Len(bt.trace) :
              LeftConnected(i) =>
                  /\ bt.result = "true"
                  /\ \A k \in (i + 1) .. Len(bt.trace) : bt.trace[k][1] \notin {"connect", "sleep"}

\* no command of the call ran into its timeout
NoTimeout == \A i \in 1 .. Len(bt.trace) : bt.trace[i][1] \in {"info", "connect"} => bt.trace[i][2] # "timeout"

\* what holds of C24 when no bluetoothctl command runs into its timeout
C24_BackoffNoTimeout == NoTimeout => C24_BackoffThenFalse

\* the call found the device connected at its first status query
FoundConnected == Len(bt.trace) >= 1 /\ bt.trace[1] = <<"info", "yes">>

\* C25: a call of ensure_connected or ensure_connected_once that finds the
\* device connected returns true after that one status query: no connect
\* attempt, no sleep, no default-sink reassertion, no tone; and in any call
\* the connected tone comes only after a connect attempt that left the
\* device connected.
C25_ConnectedNoEffects ==
    /\ (bt.pc = "done" /\ FoundConnected) =>
          /\ bt.result = "true"
          /\ bt.trace = << <<"info", "yes">> >>
    /\ \A k \in 1 .. Len(bt.trace) :
          bt.trace[k] = <<"tone">> => \E i \in 1 .. (k - 2) : LeftConnected(i)

\* ensure_connected with sink reassertion configured finds the device connected
C25_Witness ==
    /\ bt.pc = "done"
    /\ bt.mode = "full"
    /\ bt.sink
    /\ Len(bt.backoff) = MaxBackoff
    /\ FoundConnected
    /\ bt.result = "true"

\* C26: a call of ensure_connected_once that has ended has made at most one
\* connect attempt and no sleep, and has returned true if the device was
\* found connected or the attempt left it connected, and false otherwise.
C26_OnceSingleShot ==
    (bt.pc = "done" /\ bt.mode = "once") =>
        /\ Len(EventsOf(bt.trace, "connect")) <= 1
        /\ EventsOf(bt.trace, "sleep") = <<>>
        /\ bt.result = IF FoundConnected \/ \E i \in 1 .. Len(bt.trace) : LeftConnected(i)
                       THEN "true" ELSE "false"

\* what holds of C26 when no bluetoothctl command runs into its timeout
C26_OnceNoTimeout == NoTimeout => C26_OnceSingleShot

-----------------------------------------------------------------------------
(* The refresh specification and its properties *)

\* main() has run schedule_from_cache over the cache it found
InitRefresh ==
    /\ InitPlay /\ btConnected /\ InitKeep /\ kaCycle = FALSE
    /\ api = ApiIdle
    /\ fetch = FetchIdle
    /\ tests = TestsIdle
    /\ bt = BtIdle
    /\ probe = ProbeIdle
    /\ refresh = RefreshIdle
    /\ InitMore
    /\ now = 0
    /\ cache \in {EmptyCache, Prefetch(EmptyCache, 0, Window(0), {})}
    /\ jobs = ScheduleCached({}, cache, now, 0)
    /\ fired = NoFired
    /\ lastOp = Op("schedule_from_cache", NoPlan, {}, now)
    /\ booted = "cached"

NextRefreshSpec ==
    \/ \E fault \in Faults : ScheduleRefreshCall(fault)
    \/ \E fault \in Faults : RefreshCallback(fault)
    \/ ClockToRefresh

SpecRefresh == InitRefresh /\ [][NextRefreshSpec]_vars

\* a step in which refresh() ran
RefreshStep == refresh'.n # refresh.n

\* the two dates refresh() may reschedule
TodayAndTomorrow == {DateOf(now), DateOf(now) + 1}

C29_Step ==
    RefreshStep =>
        /\ now' = now
        /\ \A i \in 1 .. Len(refresh'.calls) :
              /\ refresh'.calls[i] \in TodayAndTomorrow
              /\ cache'[refresh'.calls[i]] # NoPlan
        /\ (refresh'.error = "none" /\ refresh'.fault # <<"read">>) =>
              refresh'.calls = SelectSeq(<<DateOf(now), DateOf(now) + 1>>,
                                         LAMBDA day : cache'[day] # NoPlan)
        /\ \A j \in (jobs \ jobs') \cup (jobs' \ jobs) :
              j.id = RefreshJobId \/ j.date \in TodayAndTomorrow
        /\ \A j \in jobs' \ jobs :
              j.id # RefreshJobId => \E i \in 1 .. Len(refresh'.calls) : refresh'.calls[i] = j.date
        /\ Cardinality({j \in jobs' : j.id = RefreshJobId}) = 1

\* C29: refresh() calls schedule_day only for today and tomorrow of the
\* scheduler clock, and only for those of the two that have a cached plan
\* after prefetch; it creates or removes no job of any other day; and after
\* any number of schedule_refresh calls there is exactly one refresh_daily job.
C29_TodayAndTomorrow == [][C29_Step]_vars

\* the daily callback has rescheduled today and tomorrow while jobs of the
\* third day of the window are pending, after schedule_refresh ran twice
C29_Witness ==
    /\ refresh.kind = "callback"
    /\ refresh.error = "none"
    /\ refresh.installs = MaxInstalls
    /\ refresh.calls = <<DateOf(now), DateOf(now) + 1>>
    /\ cache[DateOf(now) + 2] # NoPlan
    /\ \E j \in jobs : IsDayJob(j) /\ j.date = DateOf(now) + 2

\* C30: the daily refresh callback returns normally whatever fails in the
\* API client, in payload parsing, in the derivation or in the cache.
C30_CallbackReturns == refresh.kind = "callback" => refresh.error = "none"

\* what holds of C30: when the only failures are errors of the API client
\* (and unreadable cache files), refresh() returns, and with nothing fetched
\* it has scheduled from the plans the cache held
C30_ApiFailureAbsorbed ==
    [][(RefreshStep /\ refresh'.fault \in {<<"none">>, <<"read">>}) =>
          /\ refresh'.error = "none"
          /\ cache' # cache \/ \A i \in 1 .. Len(refresh'.calls) : cache[refresh'.calls[i]] # NoPlan]_vars

-----------------------------------------------------------------------------
(* The playback-timeout specification and its properties *)

\* a policy of any configuration over a probe with an empty cache
InitProbe ==
    /\ InitPlay /\ btConnected /\ InitKeep /\ kaCycle = FALSE
    /\ api = ApiIdle
    /\ fetch = FetchIdle
    /\ now = 0
    /\ jobs = {}
    /\ cache = EmptyCache
    /\ fired = NoFired
    /\ lastOp = Op("init", NoPlan, {}, 0)
    /\ booted = "init"
    /\ tests = TestsIdle
    /\ bt = BtIdle
    /\ refresh = RefreshIdle
    /\ InitMore
    /\ \E strategy \in Strategies, fallback \in Fallbacks, buffer \in Buffers,
          hasProbe \in BOOLEAN, f \in FileStates :
          probe = [ProbeIdle EXCEPT !.strategy = strategy, !.fallback = fallback,
                                    !.buffer = buffer, !.hasProbe = hasProbe, !.file = f]

SpecProbe == InitProbe /\ [][NextProbe]_vars

\* a call of resolve has returned
Resolved == probe.pc = "idle" /\ probe.how # "none"

\* the configured fallback, None meaning no timeout
ConfiguredFallback == IF probe.fallback = 0 THEN None ELSE <<probe.fallback>>

\* C27: resolve returns the configured fallback (None when it is 0) under a
\* strategy other than auto; under auto, when the probe yields a duration d
\* and d + buffer > 0, the least whole number of seconds that is at least
\* d + buffer; and the fallback when no probe is configured, when the probe
\* yields nothing, or when d + buffer <= 0.  12.2 s with a buffer of 5 s is 18.
C27_Resolve ==
    Resolved =>
        /\ probe.strategy # "auto" => probe.ret = ConfiguredFallback
        /\ (probe.strategy = "auto" /\ (~probe.hasProbe \/ probe.duration = None)) =>
              probe.ret = ConfiguredFallback
        /\ (probe.strategy = "auto" /\ probe.duration # None) =>
              LET sum == probe.duration[1] + 10 * probe.buffer
              IN  IF sum > 0
                  THEN /\ probe.ret # None
                       /\ 10 * probe.ret[1] >= sum
                       /\ 10 * (probe.ret[1] - 1) < sum
                  ELSE probe.ret = ConfiguredFallback
        /\ (probe.strategy = "auto" /\ probe.duration = <<122>> /\ probe.buffer = 5) =>
              probe.ret = <<18>>
        /\ probe.how \in {"fixed", "noprobe", "nowhich", "timeout", "exit", "invalid", "nonpositive"} =>
              probe.duration = None

\* ffprobe measured 12.2 s and resolve, with a buffer of 5 s, returned 18
C27_Witness ==
    /\ Resolved
    /\ probe.how = "ok"
    /\ probe.duration = <<122>>
    /\ probe.buffer = 5
    /\ probe.ret = <<18>>

\* the sum of duration and buffer is not positive and the fallback is returned
C27_WitnessNonPositive ==
    /\ Resolved
    /\ probe.strategy = "auto"
    /\ probe.duration # None
    /\ probe.duration[1] + 10 * probe.buffer <= 0
    /\ probe.ret = <<300>>

\* a step that is a call of resolve
CallStep == probe'.tick # probe.tick

\* a call of resolve that called duration_seconds with ffprobe installed
Looked == CallStep /\ probe'.how \notin {"fixed", "noprobe", "nowhich"}

\* a successful lookup is cached for the identity the file has now
CachedForFile == probe.cache # None /\ probe.cache[1] = probe.file

\* a lookup finds the cached entry of the file's identity: no run, the cached
\* duration is returned; any other lookup runs the tool, once
C28_Lookup ==
    Looked =>
        IF CachedForFile
        THEN /\ probe'.runs = probe.runs
             /\ probe'.how = "hit"
             /\ probe'.duration = <<probe.cache[2]>>
             /\ probe'.cache = probe.cache
        ELSE /\ probe'.runs = probe.runs + 1
             /\ probe'.pc = "running"
             /\ probe'.cache = probe.cache

\* the tool runs in no other step, and the cache changes only when a run
\* ends with a positive number, to that number under the identity the file
\* had when the lookup began (or has now, when stat had failed then)
C28_Store ==
    /\ ~Looked => probe'.runs = probe.runs
    /\ probe'.cache # probe.cache =>
          /\ probe.pc = "running"
          /\ probe'.how = "ok"
          /\ probe'.duration # None
          /\ probe'.cache = <<IF probe.key # None THEN probe.key ELSE probe.file, probe'.duration[1]>>
    /\ (probe.pc = "running" /\ probe'.pc = "idle" /\ probe'.how # "ok") =>
          /\ probe'.duration = None
          /\ probe'.cache = probe.cache
    /\ (probe.pc = "running" /\ probe'.pc = "idle" /\ probe'.how = "ok" /\ probe.key # None) =>
          probe'.cache = <<probe.key, probe'.duration[1]>>

\* C28: the tool is run for a file only when no successful lookup is cached
\* for the file's current (mtime, size): a lookup of an unchanged file
\* returns the cached duration without a run, a lookup after a change of
\* mtime or size makes exactly one run, a cached duration is returned only
\* for the identity it was stored under, and a failed lookup stores nothing.
C28_CachedByIdentity == [][C28_Lookup /\ C28_Store]_vars

\* a second lookup of the unchanged file has been answered from the cache:
\* one run so far
C28_Witness ==
    /\ probe.pc = "idle"
    /\ probe.how = "hit"
    /\ probe.runs = 1
    /\ probe.cache # None
    /\ probe.cache[1] = probe.file

\* the file changed after a cached lookup and a lookup is running the tool again
C28_WitnessChanged ==
    /\ probe.pc = "running"
    /\ probe.cache # None
    /\ probe.key # None
    /\ probe.cache[1] # probe.key
    /\ probe.runs = 2

-----------------------------------------------------------------------------
(* The audio-selection specification and its properties *)

InitSelect ==
    /\ InitPlay /\ btConnected /\ InitKeep /\ kaCycle = FALSE
    /\ api = ApiIdle
    /\ fetch = FetchIdle
    /\ now = 0
    /\ jobs = {}
    /\ cache = EmptyCache
    /\ fired = NoFired
    /\ lastOp = Op("init", NoPlan, {}, 0)
    /\ booted = "init"
    /\ tests = TestsIdle /\ bt = BtIdle /\ probe = ProbeIdle /\ refresh = RefreshIdle
    /\ disk = DiskIdle /\ web = WebIdle /\ cyc = CycIdle
    /\ \E audio \in AudioConfigs : sel = [SelIdle EXCEPT !.audio = audio]

SpecSelect == InitSelect /\ [][NextSelect]_vars

\* the calls of player.play that handle_event itself made
HandlerPlays == EventsOf(sel.trace, "play")

\* the one play of the call was of this file with this volume
PlayedWith(file, volume) == HandlerPlays = << <<"play", file, volume>> >>

\* the file of the first schedule item whose time is the label, if any
ItemsOf(label) ==
    {i \in 1 .. Len(sel.audio.quran_schedule) : sel.audio.quran_schedule[i].time = label}

\* C31: a call of handle_event that plays has played exactly the file and
\* the volume of its event name: fajr with the fajr volume, the four other
\* prayers with the shared adhan volume, the four notifications with the
\* notification volume, test_audio with the test volume, quran@L with the
\* file of the first schedule item whose time is exactly L and the quran
\* volume; and for every other name, or a label no item has, the call has
\* returned false and made no play; a known name plays whenever Bluetooth
\* is connected.
C31_Selection ==
    sel.pc = "done" =>
        LET text == sel.name[2]
            plain == sel.name[1] = ""
            a == sel.audio
        IN  /\ Len(HandlerPlays) <= 1
            /\ HandlerPlays # <<>> =>
                  \/ plain /\ text = "fajr" /\ PlayedWith(a.adhan.fajr, a.volumes.fajr_adhan_percent)
                  \/ plain /\ text = "dhuhr" /\ PlayedWith(a.adhan.dhuhr, a.volumes.adhan_percent)
                  \/ plain /\ text = "asr" /\ PlayedWith(a.adhan.asr, a.volumes.adhan_percent)
                  \/ plain /\ text = "maghrib" /\ PlayedWith(a.adhan.maghrib, a.volumes.adhan_percent)
                  \/ plain /\ text = "isha" /\ PlayedWith(a.adhan.isha, a.volumes.adhan_percent)
                  \/ plain /\ text = "sunrise" /\ PlayedWith(a.notifications.sunrise, a.volumes.notification_percent)
                  \/ plain /\ text = "sunset" /\ PlayedWith(a.notifications.sunset, a.volumes.notification_percent)
                  \/ plain /\ text = "midnight" /\ PlayedWith(a.notifications.midnight, a.volumes.notification_percent)
                  \/ plain /\ text = "tahajjud" /\ PlayedWith(a.notifications.tahajjud, a.volumes.notification_percent)
                  \/ plain /\ text = "test_audio" /\ PlayedWith(a.test_audio, a.volumes.test_percent)
                  \/ /\ ~plain
                     /\ ItemsOf(text) # {}
                     /\ \E i \in ItemsOf(text) :
                           /\ \A k \in ItemsOf(text) : i <= k
                           /\ PlayedWith(a.quran_schedule[i].file, a.volumes.quran_percent)
            /\ sel.gate # "down" =>
                  (HandlerPlays = <<>> <=>
                      \/ plain /\ text \notin {"fajr", "dhuhr", "asr", "maghrib", "isha", "sunrise",
                                               "sunset", "midnight", "tahajjud", "test_audio"}
                      \/ ~plain /\ ItemsOf(text) = {})
            /\ HandlerPlays = <<>> => sel.ret = "false"

\* quran@06:30 has played the morning file, the second item of the schedule,
\* with the quran volume
C31_Witness ==
    /\ sel.pc = "done"
    /\ sel.name = QuranName("06:30")
    /\ Len(sel.audio.quran_schedule) = 2
    /\ sel.audio.quran_schedule[2].time = "06:30"
    /\ PlayedWith("quran_morning.mp3", 55)
    /\ sel.ret = "true"

\* a label that differs from the configured one by its padding plays nothing
C31_WitnessNoMatch ==
    /\ sel.pc = "done"
    /\ sel.name = QuranName("6:30")
    /\ sel.audio.quran_schedule # <<>>
    /\ sel.trace = << <<"tone">> >>
    /\ sel.ret = "false"

-----------------------------------------------------------------------------
(* The cache-store specification and its properties *)

\* the cache directory holds no file for the key, or a complete earlier write
InitDisk ==
    /\ InitPlay /\ btConnected /\ InitKeep /\ kaCycle = FALSE
    /\ api = ApiIdle
    /\ fetch = FetchIdle
    /\ now = 0
    /\ jobs = {}
    /\ cache = EmptyCache
    /\ fired = NoFired
    /\ lastOp = Op("init", NoPlan, {}, 0)
    /\ booted = "init"
    /\ tests = TestsIdle /\ bt = BtIdle /\ probe = ProbeIdle /\ refresh = RefreshIdle
    /\ sel = SelIdle /\ web = WebIdle /\ cyc = CycIdle
    /\ \E first \in {Absent} \cup {File(Dumps(p)) : p \in Payloads} :
          disk = [DiskIdle EXCEPT !.files["json"] = first]

SpecDisk == InitDisk /\ [][NextDisk]_vars

\* C32: at every point of a write of a key, and after a write that was
\* interrupted by a crash or an OSError, read(key) returns the complete
\* payload read before the write began (None when there was none) or the
\* complete payload being written; after a write that returned, read returns
\* the written payload; and read returns what it found.
C32_AtomicWrite ==
    /\ disk.last # "none" => ReadOf(disk.files) \in {disk.prev, disk.new}
    /\ disk.last = "written" => ReadOf(disk.files) = disk.new
    /\ disk.got # None => disk.got[1] \in Payloads

\* a write that got as far as a partly written temporary file was
\* interrupted by a crash, and read returns the previous payload
C32_Witness ==
    /\ disk.last = "crashed"
    /\ disk.files["tmp"].exists
    /\ disk.files["tmp"].text # <<>>
    /\ ~WellFormed(disk.files["tmp"].text)
    /\ disk.prev # None
    /\ disk.new # disk.prev
    /\ disk.got = disk.prev

\* a write over an earlier payload has returned and read returns the new one
C32_WitnessWritten ==
    /\ disk.last = "written"
    /\ disk.prev # None
    /\ disk.new # disk.prev
    /\ disk.got = disk.new

-----------------------------------------------------------------------------
(* Quran times at startup and on refresh *)

\* C33: after schedule_refresh or the daily callback has rescheduled a day,
\* every Quran time of the configuration that is still ahead on that day has
\* a pending job quran_<YYYYMMDD>_<HHMM>.
C33_QuranJobsPending ==
    (refresh.kind # "none" /\ refresh.error = "none") =>
        \A i \in 1 .. Len(refresh.calls), hhmm \in QuranTimes :
            Combine(refresh.calls[i], hhmm) > now =>
                \E j \in jobs : j.id = QuranJobId(refresh.calls[i], hhmm)

-----------------------------------------------------------------------------
(* The request-thread specification and its properties *)

InitWeb ==
    /\ InitPlay /\ btConnected /\ InitKeep /\ kaCycle = FALSE
    /\ api = ApiIdle
    /\ fetch = FetchIdle
    /\ now = TestStart
    /\ jobs = ScheduleRefreshJob({DayJob(JobId("fajr", 1), Combine(1, <<6, 6>>),
                                         EventName("fajr"), 1, TestStart)}, TestStart)
    /\ cache = EmptyCache
    /\ fired = NoFired
    /\ lastOp = Op("init", NoPlan, {}, 0)
    /\ booted = "running"
    /\ tests = TestsIdle /\ bt = BtIdle /\ probe = ProbeIdle /\ refresh = RefreshIdle
    /\ sel = SelIdle /\ disk = DiskIdle /\ web = WebIdle /\ cyc = CycIdle

SpecWeb == InitWeb /\ [][NextWeb]_vars

\* the step in which request t passes or fails the capacity check
CheckedBy(t) == web.th[t].pc = "check" /\ web'.th[t].pc # "check"

\* the step in which request t adds its job
AddedBy(t) == web.th[t].pc = "add" /\ web'.th[t].pc = "idle"

\* C34 as stated: a request for a minute that already has a test job is not
\* rejected.
C34_SameMinuteNeverRejected ==
    ~(web.done.kind = "rejected" /\ web.done.had # None)

C34_Step ==
    \A t \in Requests :
        /\ CheckedBy(t) =>
              /\ jobs' = jobs
              /\ (web'.th[t].pc = "idle") = (Cardinality(PendingTests(jobs)) >= MaxPendingTests)
        /\ AddedBy(t) =>
              LET id == TestJobId(web.th[t].run_at)
                  mine == {j \in jobs' : j.id = id}
              IN /\ Cardinality(mine) = 1
                 /\ \A j \in mine : j.run_at = web.th[t].run_at /\ j.sec = web.th[t].sec
                 /\ {j \in jobs' : j.id # id} = {j \in jobs : j.id # id}

\* C34 as it holds: a request whose capacity check finds fewer than
\* max_pending_tests test jobs pending adds its job under the id of its
\* minute, and after the addition exactly one job has that id and it carries
\* the run time of this request, the job an earlier request left under the id
\* being replaced; a request whose check finds max_pending_tests pending is
\* rejected and replaces nothing, same minute or not.
C34_ReplacesBelowCapacity == [][C34_Step]_vars

\* a request has replaced the job an earlier request for the same minute had
\* left, and the job now carries the seconds of the later request
C34_Witness ==
    /\ web.done.kind = "added"
    /\ web.done.had # None
    /\ web.done.had[1].sec # web.done.sec
    /\ StampedJob(web.done.run_at, web.done.sec) \in jobs
    /\ \A t \in Requests : web.th[t].pc = "idle"

\* a request for a minute that has a job was rejected at capacity
C34_WitnessRejected ==
    /\ web.done.kind = "rejected"
    /\ web.done.had # None
    /\ web.done.had[1].sec # web.done.sec
    /\ Cardinality(PendingTests(jobs)) = MaxPendingTests

\* C36: whatever the interleaving of the capacity checks and the additions of
\* concurrent requests, the pending test jobs are at most max_pending_tests.
C36_NeverOverCapacity == Cardinality(PendingTests(jobs)) <= MaxPendingTests

-----------------------------------------------------------------------------
(* The test scheduler and the other jobs of the store *)

\* the jobs whose id does not begin with the test prefix: event jobs, Quran
\* jobs and refresh_daily
OtherJobs(js) == {j \in js : ~StartsWithPrefix(j.id)}

\* C35: no call of schedule_test_at_time, schedule_test_in_minutes or
\* cancel_test_job, whatever its argument, adds, removes or alters a job
\* without the test prefix.
C35_OtherJobsUntouched ==
    [][tests'.op \in {"at_time", "in_minutes", "cancel"} => OtherJobs(jobs') = OtherJobs(jobs)]_vars

-----------------------------------------------------------------------------
(* The modulation thread against pause and resume *)

\* the step in which a process is spawned
SpawnStep ==
    \/ caller.pc = "r_spawn" /\ caller'.spawned
    \/ \E m \in Mods : mods[m].pc = "spawn" /\ mods'[m].pc = "sleep"

\* pause_for_foreground has returned and nothing was called since
Paused == caller.pc = "idle" /\ caller.last = "pause"

\* C37: from the return of pause_for_foreground() to the next
\* resume_if_idle() no keepalive process is running and none is spawned,
\* whatever the modulation thread was doing when the join timed out.
C37_QuietAfterPause ==
    /\ [](Paused => kaProcess # "live" /\ kaOrphans = 0)
    /\ [][Paused => ~SpawnStep]_vars

\* the step in which modulation loop m restarts the process
RestartBy(m) == mods[m].pc = "spawn" /\ mods'[m].pc = "sleep"

\* C38: while volume cycling runs, the first process gets the minimum, and
\* every restart gets a volume of [volume_cycle_min_percent,
\* volume_cycle_max_percent] that is one step away from the volume of the
\* interval before (the one passed to the process, or the one of a restart
\* that found no player command).
C38_OneStepPerRestart ==
    [][/\ (caller.pc = "r_spawn" /\ caller'.spawned /\ kaCycle) => cyc'.vol = VolumeCycleMin
       /\ \A m \in Mods :
             RestartBy(m) =>
                /\ cyc'.vol \in VolumeCycleMin .. VolumeCycleMax
                /\ cyc'.vol - cyc.vol \in {0 - 1, 1}]_vars

\* what holds of C38: the volume of each modulation loop taken alone starts
\* at the minimum, stays within the bounds, moves by one per interval and
\* turns exactly at the bounds
C38_EachLoopBounces ==
    /\ [](\A m \in Mods : mods[m].pc # "dead" =>
             mods[m].volume \in VolumeCycleMin .. VolumeCycleMax)
    /\ [][\A m \in Mods :
            /\ (mods[m].pc = "dead" /\ mods'[m].pc # "dead") =>
                  mods'[m].volume = VolumeCycleMin /\ mods'[m].direction = 1
            /\ (mods[m].pc = "sleep" /\ mods'[m].pc = "running") =>
                  /\ mods'[m].volume - mods[m].volume = mods[m].direction
                  /\ mods'[m].volume = VolumeCycleMax =>
                        mods[m].direction = 1 /\ mods'[m].direction = 0 - 1
                  /\ mods'[m].volume = VolumeCycleMin =>
                        mods[m].direction = 0 - 1 /\ mods'[m].direction = 1
                  /\ mods'[m].volume \notin {VolumeCycleMin, VolumeCycleMax} =>
                        mods'[m].direction = mods[m].direction]_vars

\* C39: at most one modulation loop is alive at any time.
C39_OneLoop == Cardinality({m \in Mods : mods[m].pc # "dead"}) <= 1

-----------------------------------------------------------------------------
(* schedule_day over a store that holds jobs of every kind *)

\* the times mappings of the plans: an event late on the day, one early
FrameTimes == {<<>>, ("fajr" :> <<23, 59>>), ("fajr" :> <<0, 1>>)}

FramePlans == [date : TestDates, times : FrameTimes]

FrameQuran == {{}, {<<23, 59>>}, {<<0, 1>>}}

\* the test jobs pending when the specification starts: at most
\* max_pending_tests of them, within max_minutes_ahead of the clock
FrameTests ==
    {S \in SUBSET {TestJob(t) : t \in (TestStart + 1) .. (TestStart + MaxMinutesAhead)} :
        Cardinality(S) <= MaxPendingTests}

\* the clock stands two minutes before the midnight between the dates 0 and
\* 1; the store holds the refresh job, an event job of date 1 and test jobs
InitFrame ==
    /\ InitPlay /\ btConnected /\ InitKeep /\ kaCycle = FALSE
    /\ InitTools
    /\ api = ApiIdle
    /\ fetch = FetchIdle
    /\ now = TestStart
    /\ \E S \in FrameTests :
          jobs = S \cup ScheduleRefreshJob({DayJob(JobId("isha", 1), Combine(1, <<19, 30>>),
                                                  EventName("isha"), 1, TestStart)}, TestStart)
    /\ cache = EmptyCache
    /\ fired = NoFired
    /\ lastOp = Op("init", NoPlan, {}, 0)
    /\ booted = "running"

NextFrame == \E plan \in FramePlans, q \in FrameQuran : ScheduleDayCall(plan, q)

SpecFrame == InitFrame /\ [][NextFrame]_vars

\* the jobs a schedule_day for `day` has to leave alone: the test jobs, the
\* refresh job, and the event and Quran jobs of the other dates
OutsideDate(js, day) ==
    {j \in js : StartsWithPrefix(j.id) \/ j.id = RefreshJobId \/ ~IdEncodesDate(j.id, day)}

\* C40: schedule_day for date D leaves every job of another date, the
\* refresh_daily job and every test job as it was: the jobs outside D are the
\* same set before and after the call.
C40_Frame ==
    [][lastOp'.op = "schedule_day" =>
          OutsideDate(jobs', lastOp'.plan.date) = OutsideDate(jobs, lastOp'.plan.date)]_vars

\* schedule_day for D has run over a store with a test job stamped D, a test
\* job of the other date, the refresh job, and an event job and a Quran job of
\* the other date, and has left an event job of D
C40_Witness ==
    /\ lastOp.op = "schedule_day"
    /\ \E j \in jobs : StartsWithPrefix(j.id) /\ j.date = lastOp.plan.date
    /\ \E j \in jobs : StartsWithPrefix(j.id) /\ j.date # lastOp.plan.date
    /\ \E j \in jobs : j.id = RefreshJobId
    /\ \E j \in jobs : j.id = JobId("fajr", lastOp.plan.date)
    /\ \E j \in jobs : j.id[1] = Word("event") /\ j.date # lastOp.plan.date
    /\ \E j \in jobs : j.id[1] = Word("quran") /\ j.date # lastOp.plan.date

====
